---- MODULE Spec2Model ----
(***************************************************************************)
(* A model of ag-crud-rethink: the realtime CRUD layer between socket      *)
(* clients and RethinkDB.  The module holds three state machines over one  *)
(* set of variables:                                                       *)
(*   Spec      the write operations (create / update / delete /            *)
(*             notifyUpdate) and the publications each of them makes;      *)
(*   SpecRead  read-by-id, the resource cache, the engine's subscription   *)
(*             to the resource channel and the SUBSCRIBE prefetch;         *)
(*   SpecMw    the inbound and outbound middleware of the access           *)
(*             controller.                                                 *)
(***************************************************************************)
EXTENDS Integers, Sequences, FiniteSets, TLC

VARIABLES
    \* the write operations
    db,         \* the document Item/i1 in the database (null or a document)
    ops,        \* the write operation of each writer
    nWrites,    \* number of write operations started so far
    \* read by id
    docVer,     \* number of writes applied to the document Item/i1
    writer,     \* "idle", or "written" between a write and its publication
    inbox,      \* resource-channel messages delivered to the engine, unhandled
    handledVer, \* the last write whose publication the engine has handled
    sub,        \* the engine's subscription to the resource channel
    readers,    \* the read({type, id}) call of each reader
    cache,      \* the cache entry Item/i1
    fetches,    \* database reads in flight for the SUBSCRIBE prefetch
    dbQueries,  \* number of table.get(id).run() calls made so far
    prefetch,   \* the Cache.pass call of each subscribing client
    \* access controller
    options,    \* the options the access controller was constructed with
    inbound,    \* the inbound action being handled and its outcome
    outbound,   \* the publication being fanned out and each socket's outcome
    \* calls made for a socket, the SUBSCRIBE action, the socket's requests
    calls,      \* each writer's call: its socket and the post access filter
    postOptions,\* the post access filter options of the access controller
    subscribe,  \* the SUBSCRIBE action being handled and what it has done
    requests,   \* the RPC requests received on one socket, in arrival order
    \* the cache object, for the resource path Item/i1
    cacheEntries,  \* this._cache: the stored entry, by resource path
    cacheWatchers, \* this._watchers: the callers whose promise is unsettled
    timers,     \* the armed timers
    providers,  \* the provider invocations that have not settled
    passes,     \* the Cache.pass call of each caller
    emitted     \* number of events the cache has emitted, by name

writeVars == <<db, ops, nWrites>>

readVars ==
    <<docVer, writer, inbox, handledVer, sub, readers, cache, fetches,
      dbQueries, prefetch>>

mwVars == <<options, inbound, outbound>>

accessVars == <<postOptions, subscribe, requests>>

cacheVars ==
    <<cacheEntries, cacheWatchers, timers, providers, passes, emitted>>

vars == <<writeVars, readVars, mwVars, calls, accessVars, cacheVars>>

(***************************************************************************)
(* JavaScript values.  A resource (and every plain object keyed by field   *)
(* names) is a function over AllFields; a key that is absent and a key     *)
(* whose value is undefined are both Undef, which is how every consumer in *)
(* the source (obj[field], !==, JSON stringification) sees them.           *)
(***************************************************************************)
Undef == "undefined"

AllFields == {"id", "owner", "rank"}

\* Field names in lexicographic order, the order of a key-sorted JSON text.
SortedFields == <<"id", "owner", "rank">>

Owners == {"u1", "u2"}
Ranks == {"r1", "r2"}
TheId == "i1"

EmptyObject == [f \in AllFields |-> Undef]

Resources ==
    {[id |-> TheId, owner |-> o, rank |-> r] :
        o \in Owners \cup {Undef}, r \in Ranks \cup {Undef}}

(***************************************************************************)
(* The schema the engine is constructed with (options.schema).             *)
(*   Item: fields id, owner, rank;                                         *)
(*         views byOwner {paramFields:[owner], affectingFields:[rank]},    *)
(*               ranked  {affectingFields:[rank]}                          *)
(*   User: fields id;                                                      *)
(*         views ownedItems {paramFields:[id],                             *)
(*                           foreignAffectingFields:{Item:[owner]}}        *)
(*         relations {Item: {id: item => item.owner}}                      *)
(*   Team: fields id;                                                      *)
(*         views ownedItems {paramFields:[id],                             *)
(*                           foreignAffectingFields:{Item:[rank]}}         *)
(***************************************************************************)
ModelNames == <<"Item", "User", "Team">>

ModelFields(type) ==
    IF type = "Item" THEN <<"id", "owner", "rank">>
    ELSE IF type \in {"User", "Team"} THEN <<"id">>
    ELSE <<>>

ModelViews(type) ==
    IF type = "Item" THEN
        << [name |-> "byOwner", paramFields |-> <<"owner">>,
            affectingFields |-> <<"rank">>, foreignAffectingFields |-> <<>>,
            disableRealtime |-> FALSE],
           [name |-> "ranked", paramFields |-> <<>>,
            affectingFields |-> <<"rank">>, foreignAffectingFields |-> <<>>,
            disableRealtime |-> TRUE] >>
    ELSE IF type = "User" THEN
        << [name |-> "ownedItems", paramFields |-> <<"id">>,
            affectingFields |-> <<>>,
            foreignAffectingFields |->
                << [type |-> "Item", fields |-> <<"owner">>] >>,
            disableRealtime |-> FALSE] >>
    ELSE IF type = "Team" THEN
        << [name |-> "ownedItems", paramFields |-> <<"id">>,
            affectingFields |-> <<>>,
            foreignAffectingFields |->
                << [type |-> "Item", fields |-> <<"rank">>] >>,
            disableRealtime |-> FALSE] >>
    ELSE <<>>

\* relations declared on model `type` for documents of `sourceType`:
\* the set of field names that have a relation function.
ModelRelations(type, sourceType) ==
    IF type = "User" /\ sourceType = "Item" THEN {"id"} ELSE {}

\* The relation function itself: User.relations.Item.id = item => item.owner
RelationFn(type, sourceType, fieldName, arg) ==
    IF type = "User" /\ sourceType = "Item" /\ fieldName = "id"
    THEN arg["owner"] ELSE Undef

RECURSIVE Flatten(_)
Flatten(ss) == IF ss = <<>> THEN <<>> ELSE Head(ss) \o Flatten(Tail(ss))

SeqToSet(s) == {s[i] : i \in 1..Len(s)}

(***************************************************************************)
(* The constructor's derived indices.                                      *)
(***************************************************************************)
\* The registrations one view makes: one per type named in its
\* foreignAffectingFields.
ViewForeignDeclarations(modelName, v) ==
    [k \in 1..Len(v.foreignAffectingFields) |->
        [forType |-> v.foreignAffectingFields[k].type,
         name |-> v.name,
         paramFields |-> v.paramFields,
         affectingFields |-> v.foreignAffectingFields[k].fields,
         parentType |-> modelName]]

ModelForeignDeclarations(modelName, views) ==
    Flatten([j \in 1..Len(views) |->
                ViewForeignDeclarations(modelName, views[j])])

\* Every (type, viewName) registration the constructor attempts, in the
\* order of its three nested Object.keys loops.
ForeignViewDeclarations ==
    Flatten([i \in 1..Len(ModelNames) |->
                ModelForeignDeclarations(ModelNames[i],
                                         ModelViews(ModelNames[i]))])

\* The registrations for `type` from position i on; the first registration
\* of each view name wins.
RECURSIVE FirstRegistrations(_, _, _)
FirstRegistrations(decl, type, i) ==
    IF i > Len(decl) THEN <<>>
    ELSE (IF /\ decl[i].forType = type
             /\ \A j \in 1..(i - 1) :
                  ~(decl[j].forType = type /\ decl[j].name = decl[i].name)
          THEN <<decl[i]>> ELSE <<>>)
         \o FirstRegistrations(decl, type, i + 1)

\* this._foreignViews[type]
GetForeignViews(type) == FirstRegistrations(ForeignViewDeclarations, type, 1)

\* this._typeRelations[sourceType][targetType]: the field names with a
\* relation function, or {} when the index has no such entry.
TypeRelations(sourceType, targetType) ==
    IF targetType \in SeqToSet(ModelNames)
    THEN ModelRelations(targetType, sourceType) ELSE {}

(***************************************************************************)
(* Channel-name codec.  A channel name is kept as a record of the parts    *)
(* that the string is concatenated from.                                   *)
(***************************************************************************)
\* jsonStableStringify of a flat object: the key/value pairs in key order;
\* keys whose value is undefined are left out, as JSON does.
RECURSIVE StringifyFrom(_, _)
StringifyFrom(obj, i) ==
    IF i > Len(SortedFields) THEN <<>>
    ELSE (IF obj[SortedFields[i]] = Undef THEN <<>>
          ELSE << <<SortedFields[i], obj[SortedFields[i]]>> >>)
         \o StringifyFrom(obj, i + 1)

JsonStableStringify(obj) == StringifyFrom(obj, 1)

GetResourceChannelName(type, id) ==
    [shape |-> "resource", type |-> type, id |-> id, field |-> Undef,
     view |-> Undef, params |-> <<>>]

GetResourcePropertyChannelName(type, id, field) ==
    [shape |-> "field", type |-> type, id |-> id, field |-> field,
     view |-> Undef, params |-> <<>>]

\* None of the schema's views declares primaryKeys, so primaryParams is
\* viewParams || {}.
GetViewChannelName(viewName, viewParams, type) ==
    [shape |-> "view", type |-> type, id |-> Undef, field |-> Undef,
     view |-> viewName, params |-> JsonStableStringify(viewParams)]

AreObjectsEqual(objectA, objectB) ==
    JsonStableStringify(objectA) = JsonStableStringify(objectB)

(***************************************************************************)
(* Nullable resources: the result of table.get(id) is a document or null.  *)
(***************************************************************************)
NullResource == [isNull |-> TRUE, doc |-> EmptyObject]

Some(doc) == [isNull |-> FALSE, doc |-> doc]

\* `resource || {}`
OrEmpty(r) == IF r.isNull THEN EmptyObject ELSE r.doc

(***************************************************************************)
(* View-Affect Engine                                                      *)
(***************************************************************************)
MapResourceField(fieldName, fieldValue, sourceType, targetType) ==
    IF sourceType = targetType
    THEN [success |-> TRUE, value |-> fieldValue]
    ELSE IF /\ TypeRelations(sourceType, targetType) # {}
            /\ fieldName \in TypeRelations(sourceType, targetType)
    THEN [success |-> TRUE,
          value |-> RelationFn(targetType, sourceType, fieldName, fieldValue)]
    ELSE [success |-> FALSE, value |-> Undef]

\* `mappingResult.success ? mappingResult.value : resource[fieldName]`
MappedOrRaw(mappingResult, resource, fieldName) ==
    IF mappingResult.success THEN mappingResult.value ELSE resource[fieldName]

\* The value getAffectedViews stores for one param / affecting field.  The
\* source calls _mapResourceField with three arguments (resource, the
\* written type, the view's type), which land in the parameters fieldName,
\* fieldValue and sourceType; targetType is undefined.
ViewFieldValue(resource, fieldName, type, viewType) ==
    MappedOrRaw(MapResourceField(resource, type, viewType, Undef),
                resource, fieldName)

OwnViewSchemas(type, own) ==
    [i \in 1..Len(own) |->
        [name |-> own[i].name, type |-> type,
         paramFields |-> own[i].paramFields,
         affectingFields |-> own[i].affectingFields]]

ForeignViewSchemas(foreign) ==
    [i \in 1..Len(foreign) |->
        [name |-> foreign[i].name, type |-> foreign[i].parentType,
         paramFields |-> foreign[i].paramFields,
         affectingFields |-> foreign[i].affectingFields]]

\* Candidate views of a write to `type`: its own views, then the foreign
\* views registered for it.
AllViewSchemas(type) ==
    OwnViewSchemas(type, ModelViews(type))
        \o ForeignViewSchemas(GetForeignViews(type))

\* The view-data tuple built for one candidate.  `keys` is the key set of
\* affectingData (a key may be present with the value undefined).
BuildViewData(viewData, type, resource) ==
    [view |-> viewData.name,
     type |-> viewData.type,
     params |-> [f \in AllFields |->
        IF f \in SeqToSet(viewData.paramFields)
        THEN ViewFieldValue(resource, f, type, viewData.type)
        ELSE Undef],
     affectingData |-> [f \in AllFields |->
        IF f \in SeqToSet(viewData.paramFields \o viewData.affectingFields)
        THEN ViewFieldValue(resource, f, type, viewData.type)
        ELSE Undef],
     keys |-> SeqToSet(viewData.paramFields \o viewData.affectingFields)]

\* A faulty variant of IsViewAffectedByUpdate: the lookup holds id and the
\* view's paramFields only.
IsViewAffectedByParams(viewData, updatedFields) ==
    \E i \in 1..Len(updatedFields) :
        updatedFields[i] \in {"id"} \cup SeqToSet(viewData.paramFields)

IsViewAffectedByUpdate(viewData, updatedFields) ==
    \E i \in 1..Len(updatedFields) :
        updatedFields[i] \in
            {"id"} \cup SeqToSet(viewData.paramFields)
                   \cup SeqToSet(viewData.affectingFields)

\* The loop of getAffectedViews over the candidates from position i on.
RECURSIVE AffectedFrom(_, _, _, _, _, _)
AffectedFrom(all, i, type, resource, hasFields, fields) ==
    IF i > Len(all) THEN <<>>
    ELSE (IF hasFields => IsViewAffectedByUpdate(all[i], fields)
          THEN <<BuildViewData(all[i], type, resource)>> ELSE <<>>)
         \o AffectedFrom(all, i + 1, type, resource, hasFields, fields)

\* getAffectedViews({type, resource, fields}); hasFields is false when the
\* caller passes no `fields`.
GetAffectedViews(type, resource, hasFields, fields) ==
    AffectedFrom(AllViewSchemas(type), 1, type, OrEmpty(resource),
                 hasFields, fields)

GetQueryAffectedViews(query, resource) ==
    GetAffectedViews(query.type, resource, query.field # Undef,
                     IF query.field # Undef THEN <<query.field>> ELSE <<>>)

\* Object.keys(getModifiedResourceFields({oldResource, newResource})), in
\* key order.
GetModifiedResourceFields(oldResource, newResource) ==
    SelectSeq(SortedFields,
              LAMBDA f : OrEmpty(oldResource)[f] # OrEmpty(newResource)[f])


(***************************************************************************)
(* Publications.  exchange.transmitPublish(channel, payload): a payload is *)
(* {type, value}; `value` holds a field value, `data` the JSON text of a   *)
(* value object; type Undef is a publication with no payload.              *)
(***************************************************************************)
NoPayload == [type |-> Undef, value |-> Undef, data |-> <<>>]

Publication(channel, payload) == [channel |-> channel, payload |-> payload]

\* {id: id, ...viewData.affectingData}: every key of affectingData
\* overwrites, also with an undefined value.
ViewOperationValue(id, viewData) ==
    [f \in AllFields |->
        IF f \in viewData.keys THEN viewData.affectingData[f]
        ELSE IF f = "id" THEN id ELSE Undef]

\* publish(_getViewChannelName(view, params, type), {type, value})
ViewPublication(viewData, opType, id, valueData) ==
    Publication(
        GetViewChannelName(viewData.view, viewData.params, viewData.type),
        [type |-> opType, value |-> Undef,
         data |-> JsonStableStringify(ViewOperationValue(id, valueData))])

FieldPublication(type, id, field, opType, value) ==
    Publication(GetResourcePropertyChannelName(type, id, field),
                [type |-> opType, value |-> value, data |-> <<>>])

ResourcePublication(type, id) ==
    Publication(GetResourceChannelName(type, id), NoPayload)

\* {}: what a lookup in a view-data map yields for a missing key (|| {}).
EmptyViewData ==
    [view |-> Undef, type |-> Undef, params |-> EmptyObject,
     affectingData |-> EmptyObject, keys |-> {}]

\* The last element of `list` at a position in `hits`, {} if there is none.
LastOf(list, hits) ==
    IF hits = {} THEN EmptyViewData
    ELSE list[CHOOSE i \in hits : \A j \in hits : j <= i]

\* oldViewDataMap[`${view}:${type}`] || {}
OldViewDataFor(oldAffectedViewData, viewData) ==
    LastOf(oldAffectedViewData,
           {i \in 1..Len(oldAffectedViewData) :
               /\ oldAffectedViewData[i].view = viewData.view
               /\ oldAffectedViewData[i].type = viewData.type})

(***************************************************************************)
(* _create.savedHandler (success branch)                                   *)
(***************************************************************************)
CreateViewPublicationsFor(affectedViewData, id) ==
    [i \in 1..Len(affectedViewData) |->
        ViewPublication(affectedViewData[i], "create", id, affectedViewData[i])]

\* A faulty variant of CreateViewPublications: the foreign views are left out.
CreateOwnViewPublications(query, result) ==
    CreateViewPublicationsFor(
        SelectSeq(GetQueryAffectedViews(query, Some(result)),
                  LAMBDA v : v.type = query.type),
        result["id"])

CreateViewPublications(query, result) ==
    CreateViewPublicationsFor(GetQueryAffectedViews(query, Some(result)),
                              result["id"])

CreatePublications(query, result) ==
    <<ResourcePublication(query.type, result["id"])>>
        \o CreateViewPublications(query, result)

(***************************************************************************)
(* _update.savedHandler (success branch)                                   *)
(***************************************************************************)
\* Object.keys(query.value), for a whole-resource update.
ValueKeys(value) == SelectSeq(SortedFields, LAMBDA f : value[f] # Undef)

WholeUpdateFieldPublications(query, keys) ==
    [i \in 1..Len(keys) |->
        FieldPublication(query.type, query.id, keys[i], "update",
                         query.rec[keys[i]])]

UpdateFieldPublications(query) ==
    IF query.field # Undef
    THEN <<FieldPublication(query.type, query.id, query.field, "update",
                            query.value)>>
    ELSE WholeUpdateFieldPublications(query, ValueKeys(query.rec))

\* The publications the handler makes for one view of newAffectedViewData.
UpdateViewTransition(query, oldViewData, viewData) ==
    IF AreObjectsEqual(oldViewData.params, viewData.params)
    THEN IF ~AreObjectsEqual(oldViewData.affectingData, viewData.affectingData)
         THEN <<ViewPublication(viewData, "update", query.id, viewData)>>
         ELSE <<>>
    ELSE <<ViewPublication(oldViewData, "update", query.id, viewData),
           ViewPublication(viewData, "update", query.id, viewData)>>

UpdateViewTransitions(query, oldAffectedViewData, newAffectedViewData) ==
    Flatten([i \in 1..Len(newAffectedViewData) |->
        UpdateViewTransition(query,
            OldViewDataFor(oldAffectedViewData, newAffectedViewData[i]),
            newAffectedViewData[i])])

UpdateViewPublications(query, oldAffectedViewData, result) ==
    UpdateViewTransitions(query, oldAffectedViewData,
                          GetQueryAffectedViews(query, Some(result)))

\* A faulty variant of UpdatePublications: the resource channel comes last.
UpdatePublicationsResourceLast(query, oldAffectedViewData, result) ==
    UpdateFieldPublications(query)
        \o UpdateViewPublications(query, oldAffectedViewData, result)
        \o <<ResourcePublication(query.type, query.id)>>

UpdatePublications(query, oldAffectedViewData, result) ==
    <<ResourcePublication(query.type, query.id)>>
        \o UpdateFieldPublications(query)
        \o UpdateViewPublications(query, oldAffectedViewData, result)

(***************************************************************************)
(* _delete.deletedHandler (success branch)                                 *)
(***************************************************************************)
DeleteViewPublications(query, oldAffectedViewData) ==
    [i \in 1..Len(oldAffectedViewData) |->
        ViewPublication(oldAffectedViewData[i], "delete", query.id,
                        oldAffectedViewData[i])]

DeletedFieldPublications(query, deletedFields) ==
    [i \in 1..Len(deletedFields) |->
        FieldPublication(query.type, query.id, deletedFields[i], "delete",
                         Undef)]

\* A faulty variant of DeleteFieldPublications: only the first declared
\* field is published.
DeleteFirstFieldPublication(query) ==
    DeletedFieldPublications(query, SubSeq(ModelFields(query.type), 1, 1))

DeleteFieldPublications(query) ==
    DeletedFieldPublications(query, ModelFields(query.type))

\* A field delete publishes on the field's channel only; a whole-document
\* delete publishes on the view channels and then on every field channel.
DeletePublications(query, oldAffectedViewData) ==
    <<ResourcePublication(query.type, query.id)>>
        \o (IF query.field # Undef
            THEN <<FieldPublication(query.type, query.id, query.field,
                                    "delete", Undef)>>
            ELSE DeleteViewPublications(query, oldAffectedViewData)
                     \o DeleteFieldPublications(query))

(***************************************************************************)
(* External-notify API                                                     *)
(***************************************************************************)
\* notifyResourceUpdate with `fields` an array of names.
NotifyResourceUpdate(type, id, fields) ==
    <<ResourcePublication(type, id)>>
        \o [i \in 1..Len(fields) |->
               Publication(GetResourcePropertyChannelName(type, id, fields[i]),
                           NoPayload)]

\* A view-data map keyed by the view name alone (the last one wins), read
\* with `|| {}`.
ViewDataFor(affectedViewData, viewName) ==
    LastOf(affectedViewData,
           {i \in 1..Len(affectedViewData) :
               affectedViewData[i].view = viewName})

\* notifyUpdate's loop over the views of the old resource.
NotifyOldViewPublications(id, newIsNull, oldViews, newViews) ==
    [i \in 1..Len(oldViews) |->
        IF newIsNull
        THEN ViewPublication(oldViews[i], "delete", id, oldViews[i])
        ELSE ViewPublication(oldViews[i], "update", id,
                             ViewDataFor(newViews, oldViews[i].view))]

\* notifyUpdate's loop over the views of the new resource.
NotifyNewViewPublications(id, oldIsNull, oldViews, newViews) ==
    Flatten([i \in 1..Len(newViews) |->
        IF AreObjectsEqual(ViewDataFor(oldViews, newViews[i].view).params,
                           newViews[i].params)
        THEN <<>>
        ELSE <<ViewPublication(newViews[i],
                               IF oldIsNull THEN "create" ELSE "update",
                               id, newViews[i])>>])

NotifyUpdateFields(type, id, oldResource, newResource, updatedFieldsList) ==
    IF updatedFieldsList = <<>> THEN <<>>
    ELSE NotifyResourceUpdate(type, id, updatedFieldsList)
         \o NotifyOldViewPublications(id, newResource.isNull,
                GetAffectedViews(type, Some(OrEmpty(oldResource)), TRUE,
                                 updatedFieldsList),
                GetAffectedViews(type, Some(OrEmpty(newResource)), TRUE,
                                 updatedFieldsList))
         \o NotifyNewViewPublications(id, oldResource.isNull,
                GetAffectedViews(type, Some(OrEmpty(oldResource)), TRUE,
                                 updatedFieldsList),
                GetAffectedViews(type, Some(OrEmpty(newResource)), TRUE,
                                 updatedFieldsList))

NotifyUpdate(type, oldResource, newResource) ==
    NotifyUpdateFields(type,
        (IF ~oldResource.isNull THEN oldResource.doc
         ELSE OrEmpty(newResource))["id"],
        oldResource, newResource,
        GetModifiedResourceFields(oldResource, newResource))


(***************************************************************************)
(* The database (RethinkDB), for the one row Item/i1.                      *)
(***************************************************************************)
\* A message of the database: the text before the first backtick and the
\* text the message quotes between backticks (Undef when it quotes none).
Message(head, quoted) == [head |-> head, quoted |-> quoted]

\* first_error of an insert whose key exists.  RethinkDB writes
\* "Duplicate primary key `id`:" followed by the two documents: the quoted
\* text is the name of the table's primary key.
DuplicateMessage == Message("Duplicate primary key", "id")

\* errors.create(rawError): the error's name by the two patterns, and the
\* text captured between the backticks as primaryKey.
ErrorsCreate(message) ==
    IF message.head = "The query did not find a document and returned null"
    THEN [name |-> "DocumentNotFoundError", primaryKey |-> Undef]
    ELSE IF message.head = "Duplicate primary key" /\ message.quoted # Undef
    THEN [name |-> "DuplicatePrimaryKeyError", primaryKey |-> message.quoted]
    ELSE [name |-> "DatabaseError", primaryKey |-> Undef]

\* table.insert(value, {returnChanges: true}).run() resolving: result.errors
\* with first_error mapped by errors.create, or the new row.
DbInsert(row, value) ==
    IF ~row.isNull
    THEN [error |-> ErrorsCreate(DuplicateMessage).name,
          primaryKey |-> ErrorsCreate(DuplicateMessage).primaryKey,
          row |-> row, result |-> EmptyObject]
    ELSE [error |-> Undef, primaryKey |-> Undef,
          row |-> Some(value), result |-> value]

\* run() rejecting: the driver's error, handed to savedHandler as it is.
DbInsertRejected(row) ==
    [error |-> "ReqlDriverError", primaryKey |-> Undef,
     row |-> row, result |-> EmptyObject]

\* record merged into the stored document, as table.get(id).update does.
Merged(doc, record) ==
    [f \in AllFields |-> IF record[f] # Undef THEN record[f] ELSE doc[f]]

\* _updateDb: table.get(id).update(record, {returnChanges: true}); the
\* result is changes[0].new_val, or {} when the write made no change.
UpdateDb(row, record) ==
    IF row.isNull \/ Merged(row.doc, record) = row.doc
    THEN [error |-> Undef, row |-> row, result |-> EmptyObject]
    ELSE [error |-> Undef, row |-> Some(Merged(row.doc, record)),
          result |-> Merged(row.doc, record)]

\* table.get(id).delete()
DbDelete(row) == [error |-> Undef, row |-> NullResource, result |-> EmptyObject]

\* row.without(field)
Without(doc, field) ==
    [f \in AllFields |-> IF f = field THEN Undef ELSE doc[f]]

\* table.get(id).replace(row => row.without(field), {returnChanges: true})
DbWithout(row, field) ==
    IF row.isNull
    THEN [error |-> "DatabaseError", row |-> row, result |-> EmptyObject]
    ELSE IF Without(row.doc, field) = row.doc
    THEN [error |-> Undef, row |-> row, result |-> EmptyObject]
    ELSE [error |-> Undef, row |-> Some(Without(row.doc, field)),
          result |-> Without(row.doc, field)]

\* The model validator of `type` applied to a record: a field that is not
\* part of the model is an error; a valid record yields its sanitized copy.
ModelValidator(type, record, allowPartial) ==
    IF \E f \in AllFields :
          record[f] # Undef /\ f \notin SeqToSet(ModelFields(type))
    THEN [error |-> "CRUDValidationError", value |-> EmptyObject]
    ELSE [error |-> Undef, value |-> record]

(***************************************************************************)
(* Write operations.  Every writer runs one operation at a time; the       *)
(* steps of different writers interleave at the database round trips.      *)
(* A finished operation keeps, until its promise settles, the publications *)
(* it made in order (pubs), the result its handler received, and the row   *)
(* as it was before and after its database write.                          *)
(***************************************************************************)
Writers == {"w1", "w2"}

MaxWrites == 3

NoQuery ==
    [action |-> Undef, type |-> Undef, id |-> Undef, field |-> Undef,
     value |-> Undef, rec |-> EmptyObject]

IdleOp ==
    [pc |-> "idle", query |-> NoQuery, oldAffectedViewData |-> <<>>,
     oldResource |-> NullResource, result |-> NullResource,
     before |-> NullResource, after |-> NullResource,
     pubs |-> <<>>, error |-> Undef, primaryKey |-> Undef, events |-> {}]

CreateValues ==
    {[id |-> TheId, owner |-> o, rank |-> r] : o \in Owners, r \in Ranks}

UpdateFieldQueries ==
    {[action |-> "update", type |-> "Item", id |-> TheId, field |-> "owner",
      value |-> o, rec |-> EmptyObject] : o \in Owners}
    \cup
    {[action |-> "update", type |-> "Item", id |-> TheId, field |-> "rank",
      value |-> r, rec |-> EmptyObject] : r \in Ranks}

UpdateWholeValues ==
    {[id |-> Undef, owner |-> "u2", rank |-> Undef],
     [id |-> Undef, owner |-> Undef, rank |-> "r2"],
     [id |-> Undef, owner |-> "u1", rank |-> "r1"]}

UpdateWholeQueries ==
    {[action |-> "update", type |-> "Item", id |-> TheId, field |-> Undef,
      value |-> Undef, rec |-> v] : v \in UpdateWholeValues}

DeleteQueries ==
    {[action |-> "delete", type |-> "Item", id |-> TheId, field |-> f,
      value |-> Undef, rec |-> EmptyObject] : f \in {Undef, "owner", "rank"}}

NotifyResources ==
    {NullResource} \cup
    {Some([id |-> TheId, owner |-> o, rank |-> r]) :
        <<o, r>> \in {<<"u1", "r1">>, <<"u2", "r1">>, <<"u1", "r2">>}}

Done(op, pubs, result, before, after) ==
    [op EXCEPT !.pc = "done", !.pubs = pubs, !.result = result,
               !.before = before, !.after = after]

\* The event savedHandler / deletedHandler emits next to 'error'.
FailEvent(action) ==
    IF action = "create" THEN "createFail"
    ELSE IF action = "update" THEN "updateFail"
    ELSE "deleteFail"

\* A faulty variant of Failed: the resource channel is notified before the
\* error is looked at.
FailedAfterPublishing(op, error) ==
    [op EXCEPT !.pc = "failed", !.error = error,
               !.pubs = <<ResourcePublication("Item", TheId)>>,
               !.events = {"error", "fail"}]

\* savedHandler(err) / deletedHandler(err): emit 'error' and the operation's
\* fail event, reject.
Failed(op, error) ==
    [op EXCEPT !.pc = "failed", !.error = error,
               !.events = {"error", FailEvent(op.query.action)}]

(***************************************************************************)
(* The call a write operation belongs to: the socket it was made for (none *)
(* for a call of the server itself) and what applyPostAccessFilter did.    *)
(***************************************************************************)
NoCall == [socket |-> Undef, filter |-> "none", invoked |-> FALSE]

\* options.blockPostByDefault and whether model Item declares access.post.
PostOptions == [post : BOOLEAN, blockPostByDefault : BOOLEAN]

DefaultPostOptions == [post |-> FALSE, blockPostByDefault |-> FALSE]

\* A variant of PostAccessFilterPassed that does not wait for the filter.
PostAccessFilterSkipped(call) == TRUE

\* `await applyPostAccessFilter(accessFilterRequest)` has returned: at once
\* for a call without a socket, else when the access controller accepted.
PostAccessFilterPassed(call) == call.socket = Undef \/ call.filter = "passed"

\* applyPostAccessFilter with req.resource given: the model's post filter
\* returns, throws a boolean or throws an error; without a post filter
\* blockPostByDefault decides.
PostAccessDecision(opts, outcome) ==
    IF opts.post
    THEN [invoked |-> TRUE,
          error |-> IF outcome = "returns" THEN Undef
                    ELSE IF outcome = "boolean" THEN "CRUDBlockedError"
                    ELSE "FilterError"]
    ELSE [invoked |-> FALSE,
          error |-> IF opts.blockPostByDefault THEN "CRUDBlockedError"
                    ELSE Undef]

CreateQuery(value) ==
    [action |-> "create", type |-> "Item", id |-> Undef, field |-> Undef,
     value |-> Undef, rec |-> value]

\* _create after validation: insert the value, run savedHandler.
CreateInsert(w, query, ins) ==
    IF ins.error # Undef
    THEN /\ ops' = [ops EXCEPT ![w] =
                Failed([IdleOp EXCEPT !.query = query,
                                      !.primaryKey = ins.primaryKey],
                       ins.error)]
         /\ UNCHANGED db
    ELSE /\ db' = ins.row
         /\ ops' = [ops EXCEPT ![w] =
                Done([IdleOp EXCEPT !.query = query],
                     CreatePublications(query, ins.result),
                     Some(ins.result), db, ins.row)]

\* _create: validate the value, insert it, run savedHandler.  rejected
\* tells whether run() rejects instead of resolving with a result.
CreateRun(w, value, rejected) ==
    /\ ops[w].pc = "idle"
    /\ nWrites < MaxWrites
    /\ nWrites' = nWrites + 1
    /\ IF ModelValidator("Item", value, FALSE).error # Undef
       THEN /\ ops' = [ops EXCEPT ![w] =
                   Failed([IdleOp EXCEPT !.query = CreateQuery(value)],
                          ModelValidator("Item", value, FALSE).error)]
            /\ UNCHANGED db
       ELSE CreateInsert(w, CreateQuery(value),
                IF rejected THEN DbInsertRejected(db)
                ELSE DbInsert(db, ModelValidator("Item", value, FALSE).value))
    /\ UNCHANGED <<readVars, mwVars, calls, accessVars,
                   cacheVars>>

\* _create on a database that answers the insert.
Create(w, value) == CreateRun(w, value, FALSE)

\* _update, first task: load the document and compute the views it is in.
UpdateLoad(w, query) ==
    /\ ops[w].pc = "idle"
    /\ nWrites < MaxWrites
    /\ nWrites' = nWrites + 1
    /\ ops' = [ops EXCEPT ![w] =
          [IdleOp EXCEPT !.pc = "loaded", !.query = query,
                         !.oldResource = db,
                         !.oldAffectedViewData = GetQueryAffectedViews(query, db)]]
    /\ UNCHANGED <<db, readVars, mwVars, calls, accessVars,
                   cacheVars>>

\* The record _update writes: {[field]: value} or the whole value.
UpdateRecord(query) ==
    IF query.field # Undef
    THEN [EmptyObject EXCEPT ![query.field] = query.value]
    ELSE query.rec

\* _update after validation: _updateDb and savedHandler.
UpdateWrite(w, op, upd) ==
    /\ db' = upd.row
    /\ ops' = [ops EXCEPT ![w] =
          Done(op,
               UpdatePublications(op.query, op.oldAffectedViewData, upd.result),
               Some(upd.result), db, upd.row)]

\* _update, second task and savedHandler: validate the value, write it,
\* publish.  rejected: the database rejects the write and _updateDb throws.
UpdateSaveRun(w, rejected) ==
    /\ ops[w].pc = "loaded"
    /\ ops[w].query.action = "update"
    /\ PostAccessFilterPassed(calls[w])
    /\ IF ModelValidator(ops[w].query.type, UpdateRecord(ops[w].query),
                         TRUE).error # Undef
       THEN /\ ops' = [ops EXCEPT ![w] = Failed(ops[w], "CRUDValidationError")]
            /\ UNCHANGED db
       ELSE IF rejected
       THEN /\ ops' = [ops EXCEPT ![w] = Failed(ops[w], "ReqlDriverError")]
            /\ UNCHANGED db
       ELSE UpdateWrite(w, ops[w],
                UpdateDb(db, ModelValidator(ops[w].query.type,
                                 UpdateRecord(ops[w].query), TRUE).value))
    /\ UNCHANGED <<nWrites, readVars, mwVars, calls, accessVars,
                   cacheVars>>

\* _update on a database that answers the write.
UpdateSave(w) == UpdateSaveRun(w, FALSE)

\* Queries that _update and _delete refuse before they queue a task: an
\* unknown model, no id, the field 'id', a primitive in place of the
\* document (value holds a primitive, rec an object).
RefusedQueries(action) ==
    {[action |-> action, type |-> "Ghost", id |-> TheId, field |-> Undef,
      value |-> Undef, rec |-> EmptyObject],
     [action |-> action, type |-> "Item", id |-> Undef, field |-> Undef,
      value |-> Undef, rec |-> EmptyObject],
     [action |-> action, type |-> "Item", id |-> TheId, field |-> "id",
      value |-> "i2", rec |-> EmptyObject],
     [action |-> action, type |-> "Item", id |-> TheId, field |-> Undef,
      value |-> "u2", rec |-> EmptyObject]}

\* _update, the checks before any task is queued: the name of the error
\* handed to savedHandler, Undef when the tasks are queued.
UpdateCheck(query) ==
    IF query.type \notin SeqToSet(ModelNames) THEN "CRUDInvalidModelType"
    ELSE IF query.id = Undef THEN "CRUDInvalidParams"
    ELSE IF query.field = "id" THEN "CRUDInvalidOperation"
    ELSE IF query.field = Undef /\ query.value # Undef
    THEN "CRUDInvalidOperation"
    ELSE Undef

\* _update of a query it refuses: savedHandler(error), no task runs.
UpdateRejected(w, query) ==
    /\ ops[w].pc = "idle"
    /\ nWrites < MaxWrites
    /\ UpdateCheck(query) # Undef
    /\ nWrites' = nWrites + 1
    /\ ops' = [ops EXCEPT ![w] =
          Failed([IdleOp EXCEPT !.query = query], UpdateCheck(query))]
    /\ UNCHANGED <<db, readVars, mwVars, calls, accessVars,
                   cacheVars>>

\* _delete, the checks before any task is queued.
DeleteCheck(query) ==
    IF query.type \notin SeqToSet(ModelNames) THEN "CRUDInvalidModelType"
    ELSE IF query.id = Undef THEN "CRUDInvalidParams"
    ELSE Undef

\* _delete of a query it refuses: deletedHandler(error), no task runs.
DeleteRejected(w, query) ==
    /\ ops[w].pc = "idle"
    /\ nWrites < MaxWrites
    /\ DeleteCheck(query) # Undef
    /\ nWrites' = nWrites + 1
    /\ ops' = [ops EXCEPT ![w] =
          Failed([IdleOp EXCEPT !.query = query], DeleteCheck(query))]
    /\ UNCHANGED <<db, readVars, mwVars, calls, accessVars,
                   cacheVars>>

\* _delete, first task: load the document and compute the views it is in.
DeleteLoad(w, query) ==
    /\ ops[w].pc = "idle"
    /\ nWrites < MaxWrites
    /\ nWrites' = nWrites + 1
    /\ ops' = [ops EXCEPT ![w] =
          [IdleOp EXCEPT !.pc = "loaded", !.query = query,
                         !.oldResource = db,
                         !.oldAffectedViewData = GetQueryAffectedViews(query, db)]]
    /\ UNCHANGED <<db, readVars, mwVars, calls, accessVars,
                   cacheVars>>

\* _delete after the database answered: deletedHandler.
DeleteWrite(w, op, del) ==
    IF del.error # Undef
    THEN /\ ops' = [ops EXCEPT ![w] = Failed(op, del.error)]
         /\ UNCHANGED db
    ELSE /\ db' = del.row
         /\ ops' = [ops EXCEPT ![w] =
                Done(op, DeletePublications(op.query, op.oldAffectedViewData),
                     Some(del.result), db, del.row)]

\* _delete, second task and deletedHandler.
DeleteSave(w) ==
    /\ ops[w].pc = "loaded"
    /\ ops[w].query.action = "delete"
    /\ PostAccessFilterPassed(calls[w])
    /\ DeleteWrite(w, ops[w],
          IF ops[w].query.field = Undef THEN DbDelete(db)
          ELSE DbWithout(db, ops[w].query.field))
    /\ UNCHANGED <<nWrites, readVars, mwVars, calls, accessVars,
                   cacheVars>>

\* notifyUpdate({type, oldResource, newResource}), called by the server for
\* a write made outside the engine.
\* oldResourceAffectedViews of notifyUpdate; nothing is computed when no
\* field differs.
NotifyOldAffectedViews(type, oldResource, newResource) ==
    IF GetModifiedResourceFields(oldResource, newResource) = <<>> THEN <<>>
    ELSE GetAffectedViews(type, Some(OrEmpty(oldResource)), TRUE,
                          GetModifiedResourceFields(oldResource, newResource))

NotifyUpdateCall(w, oldResource, newResource) ==
    /\ ops[w].pc = "idle"
    /\ nWrites < MaxWrites
    /\ nWrites' = nWrites + 1
    /\ ops' = [ops EXCEPT ![w] =
          Done([IdleOp EXCEPT !.query.action = "notifyUpdate",
                              !.query.type = "Item",
                              !.oldResource = oldResource,
                              !.oldAffectedViewData =
                                  NotifyOldAffectedViews("Item", oldResource,
                                                         newResource)],
               NotifyUpdate("Item", oldResource, newResource),
               newResource, oldResource, newResource)]
    /\ UNCHANGED <<db, readVars, mwVars, calls, accessVars,
                   cacheVars>>

\* The operation's promise has settled; the writer is free again.
Finish(w) ==
    /\ ops[w].pc \in {"done", "failed", "rejected"}
    /\ ops' = [ops EXCEPT ![w] = IdleOp]
    /\ calls' = [calls EXCEPT ![w] = NoCall]
    /\ UNCHANGED <<db, nWrites, readVars, mwVars, accessVars,
                   cacheVars>>

\* The operation has ended and the exchange has carried what it published:
\* a publication on crud>Item/i1 reaches the engine's own consumer of that
\* channel if the engine is subscribed to it.
Deliver(w) ==
    /\ ops[w].pc \in {"done", "failed", "rejected"}
    /\ ops' = [ops EXCEPT ![w] = IdleOp]
    /\ calls' = [calls EXCEPT ![w] = NoCall]
    /\ inbox' = IF /\ sub = "subscribed"
                   /\ \E j \in 1..Len(ops[w].pubs) :
                          ops[w].pubs[j].channel
                              = GetResourceChannelName("Item", TheId)
                THEN Append(inbox, docVer) ELSE inbox
    /\ UNCHANGED <<db, nWrites, docVer, writer, handledVer, sub, readers,
                   cache, fetches, dbQueries, prefetch>>
    /\ UNCHANGED <<mwVars, accessVars,
                   cacheVars>>

\* _attachSocket: the next operation of writer w is made for a request
\* received on a socket.
AttachedCall(w) ==
    /\ ops[w].pc = "idle"
    /\ calls[w] = NoCall
    /\ nWrites < MaxWrites
    /\ calls' = [calls EXCEPT ![w].socket = "s1"]
    /\ UNCHANGED <<writeVars, readVars, mwVars, accessVars,
                   cacheVars>>

\* The second task of _update / _delete, for a call with a socket:
\* applyPostAccessFilter with the loaded document; a throw goes to
\* savedHandler / deletedHandler.
ApplyPostAccessFilter(w, outcome) ==
    /\ ops[w].pc = "loaded"
    /\ calls[w].socket # Undef
    /\ calls[w].filter = "none"
    /\ calls' = [calls EXCEPT ![w] =
          [socket |-> calls[w].socket,
           filter |-> IF PostAccessDecision(postOptions, outcome).error = Undef
                      THEN "passed" ELSE "blocked",
           invoked |-> PostAccessDecision(postOptions, outcome).invoked]]
    /\ ops' = IF PostAccessDecision(postOptions, outcome).error = Undef
              THEN ops
              ELSE [ops EXCEPT ![w] =
                      Failed(ops[w],
                             PostAccessDecision(postOptions, outcome).error)]
    /\ UNCHANGED <<db, nWrites, readVars, mwVars, accessVars,
                   cacheVars>>

\* create / update / delete (the public methods) with a query that
\* _validateQuery rejects: the method throws before _create / _update /
\* _delete is called.
InvalidCall(w, action) ==
    /\ ops[w].pc = "idle"
    /\ nWrites < MaxWrites
    /\ nWrites' = nWrites + 1
    /\ ops' = [ops EXCEPT ![w] =
          [IdleOp EXCEPT !.pc = "rejected", !.query.action = action,
                         !.error = "ValidationError"]]
    /\ UNCHANGED <<db, readVars, mwVars, calls, accessVars,
                   cacheVars>>

\* No write operation has been started.
WritesIdle ==
    /\ ops = [w \in Writers |-> IdleOp]
    /\ nWrites = 0
    /\ calls = [w \in Writers |-> NoCall]

(***************************************************************************)
(* Read by id.  The document Item/i1 is identified by the number of writes *)
(* applied to it (docVer).  The engine has an exchange (agServer is set)   *)
(* and the cache is enabled; model Item declares a post access filter, so  *)
(* a client SUBSCRIBE preloads the document through Cache.pass.            *)
(***************************************************************************)
Readers == {"r1", "r2"}

Prefetchers == {"c1", "c2"}

MaxVersion == 2

\* The value a Cache.pass watcher is resolved with: a document, or
\* undefined.
Data(ver) == [defined |-> TRUE, ver |-> ver]

UndefinedData == [defined |-> FALSE, ver |-> 0]

\* this._cache[resourcePath]: absent, the {pending: true, patch: {}}
\* placeholder, or a loaded resource.
NoEntry == [state |-> "none", data |-> UndefinedData]

PendingEntry == [state |-> "pending", data |-> UndefinedData]

ResidentEntry(data) == [state |-> "resident", data |-> data]

IdleReader == [pc |-> "idle", noEntry |-> FALSE, data |-> UndefinedData]

IdlePrefetch ==
    [pc |-> "idle", data |-> UndefinedData, fromCache |-> FALSE, handled |-> 0]

\* _resolveCacheWatchers: every watcher of the path is resolved with data.
\* The promises of the read path's Cache.pass calls are among them, but
\* nothing awaits those.
ResolveCacheWatchers(watchers, data, fromCache, handled) ==
    [c \in Prefetchers |->
        IF watchers[c].pc = "waiting"
        THEN [pc |-> "answered", data |-> data, fromCache |-> fromCache,
              handled |-> handled]
        ELSE watchers[c]]

\* _rejectCacheWatchers
RejectCacheWatchers(watchers) ==
    [c \in Prefetchers |->
        IF watchers[c].pc = "waiting"
        THEN [watchers[c] EXCEPT !.pc = "failed"]
        ELSE watchers[c]]

\* _appendToResourceReadBuffer: the reader's loadedHandler joins the buffer.
AppendToResourceReadBuffer(r) ==
    [readers EXCEPT ![r] = [pc |-> "buffered",
                            noEntry |-> cache.state = "none",
                            data |-> UndefinedData]]

\* _processResourceReadBuffer(null, ...), the callbacks: each is handed to
\* Cache.pass as a third argument, which Cache.pass does not have; no
\* loadedHandler is called.
PassedToCache(buffered) ==
    [r \in Readers |->
        IF buffered[r].pc = "buffered"
        THEN [buffered[r] EXCEPT !.pc = "passed"] ELSE buffered[r]]

\* A faulty variant of RejectedBuffer: only one loadedHandler is called.
RejectedFirstOfBuffer(buffered) ==
    [r \in Readers |->
        IF /\ buffered[r].pc = "buffered"
           /\ r = CHOOSE x \in Readers : buffered[x].pc = "buffered"
        THEN [buffered[r] EXCEPT !.pc = "rejected"] ELSE buffered[r]]

\* _processResourceReadBuffer(error, ...): every loadedHandler is called
\* with the error.
RejectedBuffer(buffered) ==
    [r \in Readers |->
        IF buffered[r].pc = "buffered"
        THEN [buffered[r] EXCEPT !.pc = "rejected"] ELSE buffered[r]]

\* _processResourceReadBuffer(null, ...), the cache: cache.pass(query,
\* dataProvider, callback) for every callback of a buffer that is not
\* empty.  On a miss the first call stores the placeholder and calls
\* dataProvider(), which starts table.get(id).run() and returns undefined
\* at once; the others wait on the placeholder; then undefined is stored as
\* the resource and every watcher is resolved with it.  On a hit the
\* watchers are resolved with the cached resource.
ProcessResourceReadBuffer ==
    IF cache.state = "none"
    THEN /\ cache' = ResidentEntry(UndefinedData)
         /\ dbQueries' = dbQueries + 1
         /\ prefetch' = ResolveCacheWatchers(prefetch, UndefinedData, FALSE,
                                             handledVer)
    ELSE IF cache.state = "resident"
    THEN /\ prefetch' = ResolveCacheWatchers(prefetch, cache.data, TRUE,
                                             handledVer)
         /\ UNCHANGED <<cache, dbQueries>>
    ELSE UNCHANGED <<cache, dbQueries, prefetch>>

\* _read of {type, id}: join the buffer; process it at once when the
\* engine is subscribed to the resource channel, subscribe when it is
\* neither subscribed nor subscribing.
Read(r) ==
    /\ readers[r].pc = "idle"
    /\ IF sub = "subscribed"
       THEN /\ readers' = PassedToCache(AppendToResourceReadBuffer(r))
            /\ ProcessResourceReadBuffer
            /\ UNCHANGED sub
       ELSE /\ readers' = AppendToResourceReadBuffer(r)
            /\ sub' = "pending"
            /\ UNCHANGED <<cache, dbQueries, prefetch>>
    /\ UNCHANGED <<docVer, writer, inbox, handledVer, fetches>>
    /\ UNCHANGED <<writeVars, mwVars, calls, accessVars,
                   cacheVars>>

\* handleResourceSubscribe: the channel's 'subscribe' event.
HandleResourceSubscribe ==
    /\ sub = "pending"
    /\ sub' = "subscribed"
    /\ readers' = PassedToCache(readers)
    /\ IF \E r \in Readers : readers[r].pc = "buffered"
       THEN ProcessResourceReadBuffer
       ELSE UNCHANGED <<cache, dbQueries, prefetch>>
    /\ UNCHANGED <<docVer, writer, inbox, handledVer, fetches>>
    /\ UNCHANGED <<writeVars, mwVars, calls, accessVars,
                   cacheVars>>

\* handleResourceSubscribeFailure: the channel's 'subscribeFail' event.
HandleResourceSubscribeFailure ==
    /\ sub = "pending"
    /\ sub' = "unsubscribed"
    /\ readers' = RejectedBuffer(readers)
    /\ UNCHANGED <<docVer, writer, inbox, handledVer, cache, fetches,
                   dbQueries, prefetch>>
    /\ UNCHANGED <<writeVars, mwVars, calls, accessVars,
                   cacheVars>>

\* A write of the document reaches the database.
WriteDb ==
    /\ writer = "idle"
    /\ docVer < MaxVersion
    /\ docVer' = docVer + 1
    /\ writer' = "written"
    /\ UNCHANGED <<inbox, handledVer, sub, readers, cache, fetches, dbQueries,
                   prefetch>>
    /\ UNCHANGED <<writeVars, mwVars, calls, accessVars,
                   cacheVars>>

\* The write's handler publishes on crud>Item/i1; the exchange delivers the
\* message to the engine if it is subscribed.
WritePublish ==
    /\ writer = "written"
    /\ writer' = "idle"
    /\ inbox' = IF sub = "subscribed" THEN Append(inbox, docVer) ELSE inbox
    /\ UNCHANGED <<docVer, handledVer, sub, readers, cache, fetches,
                   dbQueries, prefetch>>
    /\ UNCHANGED <<writeVars, mwVars, calls, accessVars,
                   cacheVars>>

\* A faulty variant of CleanupResourceChannel: the channel is left as it is.
CleanupResourceChannelSkipped(channelState) == channelState

\* _cleanupResourceChannel, the listener of the cache's 'expire' and
\* 'clear' events: exchange.channel(name).unsubscribe().
CleanupResourceChannel(channelState) == "unsubscribed"

\* The engine's consumer of the resource channel takes a message:
\* _handleResourceChange -> cache.clear; an entry that is cleared emits
\* 'clear', whose listener is _cleanupResourceChannel (unsubscribe).
HandleResourceChange ==
    /\ inbox # <<>>
    /\ inbox' = Tail(inbox)
    /\ handledVer' = IF Head(inbox) > handledVer THEN Head(inbox)
                     ELSE handledVer
    /\ IF cache.state # "none"
       THEN cache' = NoEntry /\ sub' = CleanupResourceChannel(sub)
       ELSE UNCHANGED <<cache, sub>>
    /\ UNCHANGED <<docVer, writer, readers, fetches, dbQueries, prefetch>>
    /\ UNCHANGED <<writeVars, mwVars, calls, accessVars,
                   cacheVars>>

\* The entry's timeout fires: the entry is deleted and 'expire' is emitted,
\* whose listener is _cleanupResourceChannel (unsubscribe).
Expire ==
    /\ cache.state # "none"
    /\ cache' = NoEntry
    /\ sub' = CleanupResourceChannel(sub)
    /\ UNCHANGED <<docVer, writer, inbox, handledVer, readers, fetches,
                   dbQueries, prefetch>>
    /\ UNCHANGED <<writeVars, mwVars, calls, accessVars,
                   cacheVars>>

\* applyPostAccessFilter with fetchResource (a client SUBSCRIBE):
\* cache.pass(query, provider).  A miss stores the placeholder and starts
\* the provider; a hit on a loaded entry answers every watcher from it.
Prefetch(c) ==
    /\ prefetch[c].pc = "idle"
    /\ IF cache.state = "none"
       THEN /\ cache' = PendingEntry
            /\ fetches' = fetches \cup {[id |-> dbQueries + 1, read |-> FALSE,
                                         ver |-> 0]}
            /\ dbQueries' = dbQueries + 1
            /\ prefetch' = [prefetch EXCEPT ![c].pc = "waiting"]
       ELSE IF cache.state = "pending"
       THEN /\ prefetch' = [prefetch EXCEPT ![c].pc = "waiting"]
            /\ UNCHANGED <<cache, fetches, dbQueries>>
       ELSE /\ prefetch' = ResolveCacheWatchers(
                              [prefetch EXCEPT ![c].pc = "waiting"],
                              cache.data, TRUE, handledVer)
            /\ UNCHANGED <<cache, fetches, dbQueries>>
    /\ UNCHANGED <<docVer, writer, inbox, handledVer, sub, readers>>
    /\ UNCHANGED <<writeVars, mwVars, calls, accessVars,
                   cacheVars>>

\* The database serves the provider's table.get(id).run().
FetchRead(f) ==
    /\ ~f.read
    /\ fetches' = (fetches \ {f}) \cup {[f EXCEPT !.read = TRUE, !.ver = docVer]}
    /\ UNCHANGED <<docVer, writer, inbox, handledVer, sub, readers, cache,
                   dbQueries, prefetch>>
    /\ UNCHANGED <<writeVars, mwVars, calls, accessVars,
                   cacheVars>>

\* The provider's promise resolves: the loaded resource is stored and every
\* watcher is resolved with it.
FetchComplete(f) ==
    /\ f.read
    /\ fetches' = fetches \ {f}
    /\ cache' = ResidentEntry(Data(f.ver))
    /\ prefetch' = ResolveCacheWatchers(prefetch, Data(f.ver), FALSE,
                                        handledVer)
    /\ UNCHANGED <<docVer, writer, inbox, handledVer, sub, readers, dbQueries>>
    /\ UNCHANGED <<writeVars, mwVars, calls, accessVars,
                   cacheVars>>

\* The provider's promise rejects: the watchers are rejected; the entry is
\* left as it is.
FetchFail(f) ==
    /\ fetches' = fetches \ {f}
    /\ prefetch' = RejectCacheWatchers(prefetch)
    /\ UNCHANGED <<docVer, writer, inbox, handledVer, sub, readers, cache,
                   dbQueries>>
    /\ UNCHANGED <<writeVars, mwVars, calls, accessVars,
                   cacheVars>>

\* Nothing has been read: no subscription, an empty cache.
ReadsIdle ==
    /\ docVer = 0
    /\ writer = "idle"
    /\ inbox = <<>>
    /\ handledVer = 0
    /\ sub = "unsubscribed"
    /\ readers = [r \in Readers |-> IdleReader]
    /\ cache = NoEntry
    /\ fetches = {}
    /\ dbQueries = 0
    /\ prefetch = [c \in Prefetchers |-> IdlePrefetch]

(***************************************************************************)
(* Access controller: the inbound and outbound middleware.                 *)
(* options: middleware - whether options.middleware has a function for the *)
(* action's type; pre - whether model Item declares access.pre.  Whether a *)
(* custom middleware function or a pre filter throws is an input of each   *)
(* action.                                                                 *)
(***************************************************************************)
Sockets == {"s1", "s2", "s3"}

\* A value that is not a string (typeof gives "number").
NotAString == "number:7"

TypeOf(v) ==
    IF v = Undef THEN "undefined"
    ELSE IF v = NotAString THEN "number"
    ELSE "string"

NoPageSize == [kind |-> "undefined", n |-> 0]

PageSizes ==
    {NoPageSize, [kind |-> "number", n |-> 5], [kind |-> "number", n |-> 50],
     [kind |-> "string", n |-> 0]}

NoMaxPageSize == [isNull |-> TRUE, n |-> 0]

AccessControllerOptions ==
    [middleware : BOOLEAN,
     pre : BOOLEAN,
     blockPreByDefault : BOOLEAN,
     maxPageSize : {NoMaxPageSize, [isNull |-> FALSE, n |-> 10]}]

DefaultOptions ==
    [middleware |-> FALSE, pre |-> FALSE, blockPreByDefault |-> FALSE,
     maxPageSize |-> NoMaxPageSize]

\* The queries a client sends with INVOKE crud.
InvokeQueries ==
    [action : {"read", "update"},
     type : {"Item", "Ghost", NotAString},
     id : {Undef, TheId},
     field : {Undef, "owner"},
     view : {Undef, "byOwner", "nope"},
     viewParams : {Undef, "object"},
     pageSize : PageSizes]

ViewNames(type) ==
    {ModelViews(type)[i].name : i \in 1..Len(ModelViews(type))}

ViewSchema(type, viewName) ==
    CHOOSE v \in SeqToSet(ModelViews(type)) : v.name = viewName

\* validateViewQuery; TRUE when it returns without throwing.
ValidateViewQuery(query) ==
    /\ TypeOf(query.view) = "string"
    /\ query.view \in ViewNames(query.type)
    /\ (ViewSchema(query.type, query.view).paramFields # <<>>
            => query.viewParams # Undef)

\* validateQuery; TRUE when it returns without throwing.
ValidateQuery(query) ==
    /\ TypeOf(query.type) = "string"
    /\ query.type \in SeqToSet(ModelNames)
    /\ (query.field # Undef =>
            TypeOf(query.field) = "string" /\ query.id # Undef)
    /\ (query.id # Undef => TypeOf(query.id) = "string")
    /\ (query.view # Undef => ValidateViewQuery(query))
    /\ (query.pageSize.kind # "undefined" => query.pageSize.kind = "number")

\* parseChannelResourceQuery: null for a channel outside the crud>
\* namespace, else the query its name encodes.
ParseChannelResourceQuery(channel) ==
    IF channel.shape \notin {"resource", "field", "view"}
    THEN [isNull |-> TRUE, type |-> Undef, id |-> Undef, field |-> Undef,
          view |-> Undef]
    ELSE [isNull |-> FALSE, type |-> channel.type, id |-> channel.id,
          field |-> channel.field, view |-> channel.view]

OtherChannel ==
    [shape |-> "other", type |-> Undef, id |-> Undef, field |-> Undef,
     view |-> Undef, params |-> <<>>]

\* The channels a client publishes to.
PublishInChannels ==
    {GetResourceChannelName("Item", TheId),
     GetResourcePropertyChannelName("Item", TheId, "owner"),
     GetViewChannelName("ranked", EmptyObject, "Item"),
     OtherChannel}

NoError == [name |-> Undef, type |-> Undef]

CRUDBlockedError(type) == [name |-> "CRUDBlockedError", type |-> type]

CRUDPublishNotAllowedError ==
    [name |-> "CRUDPublishNotAllowedError", type |-> Undef]

\* The error a custom middleware function throws.
MiddlewareError == [name |-> "MiddlewareError", type |-> Undef]

\* The error (not a boolean) a pre access filter throws.
FilterError == [name |-> "FilterError", type |-> Undef]

\* action.block(false)
BlockedSilently == [name |-> "false", type |-> Undef]

NoData ==
    [kind |-> "undefined", type |-> Undef, publisherSocketId |-> Undef,
     publisherId |-> Undef]

\* action.allow()
Allow == [decision |-> "allow", error |-> NoError, data |-> NoData]

\* action.allow({data: payload})
AllowWith(payload) ==
    [decision |-> "allow", error |-> NoError, data |-> payload]

\* action.block(error)
Block(error) == [decision |-> "block", error |-> error, data |-> NoData]

Unhandled == [decision |-> "none", error |-> NoError, data |-> NoData]

\* this._getModelAccessFilter(modelType, 'pre') is not null.
HasPreAccessFilter(opts, modelType) == modelType = "Item" /\ opts.pre

\* `query.pageSize > maxPageSize` of the INVOKE branch, for a view read
\* with a numeric pageSize.
ExceedsMaxPageSize(opts, query) ==
    /\ query.action = "read"
    /\ query.view # Undef
    /\ query.pageSize.kind = "number"
    /\ ~opts.maxPageSize.isNull
    /\ query.pageSize.n > opts.maxPageSize.n

\* The pre filter was awaited: it returned, threw a boolean, or threw an
\* error.
PreAccessFilterOutcome(pre) ==
    IF pre = "returns" THEN Allow
    ELSE IF pre = "boolean" THEN Block(CRUDBlockedError("pre"))
    ELSE Block(FilterError)

\* A faulty variant of InvokeDecision: blockPreByDefault is not consulted.
InvokeDecisionAllowByDefault(opts, customThrows, procedure, query, pre) ==
    IF opts.middleware /\ customThrows THEN Block(MiddlewareError)
    ELSE IF procedure # "crud" THEN Allow
    ELSE IF ~ValidateQuery(query) THEN Block(CRUDBlockedError("pre"))
    ELSE IF ExceedsMaxPageSize(opts, query)
    THEN Block(CRUDBlockedError("pre"))
    ELSE IF HasPreAccessFilter(opts, query.type)
    THEN PreAccessFilterOutcome(pre)
    ELSE Allow

\* MIDDLEWARE_INBOUND, an INVOKE action.
InvokeDecision(opts, customThrows, procedure, query, pre) ==
    IF opts.middleware /\ customThrows THEN Block(MiddlewareError)
    ELSE IF procedure # "crud" THEN Allow
    ELSE IF ~ValidateQuery(query) THEN Block(CRUDBlockedError("pre"))
    ELSE IF ExceedsMaxPageSize(opts, query)
    THEN Block(CRUDBlockedError("pre"))
    ELSE IF HasPreAccessFilter(opts, query.type)
    THEN PreAccessFilterOutcome(pre)
    ELSE IF opts.blockPreByDefault THEN Block(CRUDBlockedError("pre"))
    ELSE Allow

\* A faulty variant of PublishInDecision: a CRUD channel is blocked only
\* when blockPreByDefault is set.
PublishInDecisionByDefault(opts, customThrows, channel) ==
    IF opts.middleware /\ customThrows THEN Block(MiddlewareError)
    ELSE IF ~ParseChannelResourceQuery(channel).isNull
            /\ opts.blockPreByDefault
    THEN Block(CRUDPublishNotAllowedError)
    ELSE Allow

\* MIDDLEWARE_INBOUND, a PUBLISH_IN action.
PublishInDecision(opts, customThrows, channel) ==
    IF opts.middleware /\ customThrows THEN Block(MiddlewareError)
    ELSE IF ~ParseChannelResourceQuery(channel).isNull
    THEN Block(CRUDPublishNotAllowedError)
    ELSE Allow

\* The payloads the exchange hands to the outbound middleware.
PublishedData ==
    {NoData} \cup
    [kind : {"object"}, type : {"update"},
     publisherSocketId : {Undef, "s1", "s2"},
     publisherId : {Undef, "p1"}]

\* A faulty variant of Payload: publisherId stays in the payload.
PayloadWithPublisherId(actionData) ==
    [actionData EXCEPT !.publisherSocketId = Undef]

\* let {publisherSocketId, publisherId, ...payload} = actionData
Payload(actionData) ==
    [actionData EXCEPT !.publisherSocketId = Undef, !.publisherId = Undef]

\* A faulty variant of PublishOutDecision: the publisher's socket is not
\* told apart.
PublishOutDecisionEcho(opts, customThrows, actionData, socketId) ==
    IF opts.middleware /\ customThrows THEN Block(MiddlewareError)
    ELSE IF actionData.kind = "object" THEN AllowWith(Payload(actionData))
    ELSE Allow

\* MIDDLEWARE_OUTBOUND, a PUBLISH_OUT action for the socket socketId.
PublishOutDecision(opts, customThrows, actionData, socketId) ==
    IF opts.middleware /\ customThrows THEN Block(MiddlewareError)
    ELSE IF actionData.kind = "object"
    THEN IF actionData.publisherSocketId = socketId
         THEN IF actionData.publisherId # Undef
              THEN AllowWith([Payload(actionData) EXCEPT
                                !.publisherId = actionData.publisherId])
              ELSE Block(BlockedSilently)
         ELSE AllowWith(Payload(actionData))
    ELSE Allow

InboundIdle ==
    [pc |-> "idle", type |-> Undef, customThrew |-> FALSE,
     procedure |-> Undef, query |-> Undef, pre |-> Undef, channel |-> Undef,
     result |-> Unhandled]

OutboundIdle ==
    [pc |-> "idle", data |-> NoData,
     customThrew |-> [s \in Sockets |-> FALSE],
     results |-> [s \in Sockets |-> Unhandled]]

\* The inbound middleware handles an INVOKE action; the client chooses the
\* procedure and the query, and the custom middleware function and the pre
\* filter each return or throw.
Invoke ==
    /\ inbound.pc = "idle"
    /\ outbound.pc = "idle"
    /\ \E customThrows \in BOOLEAN, procedure \in {"crud", "other"},
          query \in InvokeQueries, pre \in {"returns", "boolean", "error"} :
          inbound' =
             [pc |-> "handled", type |-> "INVOKE",
              customThrew |-> (options.middleware /\ customThrows),
              procedure |-> procedure, query |-> query, pre |-> pre,
              channel |-> Undef,
              result |-> InvokeDecision(options, customThrows, procedure,
                                        query, pre)]
    /\ UNCHANGED <<options, outbound, writeVars, readVars, calls, accessVars,
                   cacheVars>>

\* The inbound middleware handles a PUBLISH_IN action.
PublishIn(customThrows, channel) ==
    /\ inbound.pc = "idle"
    /\ outbound.pc = "idle"
    /\ inbound' =
          [pc |-> "handled", type |-> "PUBLISH_IN",
           customThrew |-> (options.middleware /\ customThrows),
           procedure |-> Undef, query |-> Undef, pre |-> Undef,
           channel |-> channel,
           result |-> PublishInDecision(options, customThrows, channel)]
    /\ UNCHANGED <<options, outbound, writeVars, readVars, calls, accessVars,
                   cacheVars>>

\* The action's stream consumer takes the next action.
InboundNext ==
    /\ inbound.pc = "handled"
    /\ inbound' = InboundIdle
    /\ UNCHANGED <<options, outbound, writeVars, readVars, calls, accessVars,
                   cacheVars>>

\* A publication on a channel every socket is subscribed to: one
\* PUBLISH_OUT action per socket.
TransmitPublish(data) ==
    /\ inbound.pc = "idle"
    /\ outbound.pc = "idle"
    /\ outbound' = [OutboundIdle EXCEPT !.pc = "sending", !.data = data]
    /\ UNCHANGED <<options, inbound, writeVars, readVars, calls, accessVars,
                   cacheVars>>

\* The outbound middleware handles the PUBLISH_OUT action of socket s.
PublishOut(s, customThrows) ==
    /\ outbound.pc = "sending"
    /\ outbound.results[s].decision = "none"
    /\ outbound' =
          [outbound EXCEPT
              !.customThrew[s] = (options.middleware /\ customThrows),
              !.results[s] = PublishOutDecision(options, customThrows,
                                                outbound.data, s)]
    /\ UNCHANGED <<options, inbound, writeVars, readVars, calls, accessVars,
                   cacheVars>>

\* Every socket's action has been handled.
OutboundNext ==
    /\ outbound.pc = "sending"
    /\ \A s \in Sockets : outbound.results[s].decision # "none"
    /\ outbound' = OutboundIdle
    /\ UNCHANGED <<options, inbound, writeVars, readVars, calls, accessVars,
                   cacheVars>>

\* No action is being handled.
MiddlewareIdle ==
    /\ inbound = InboundIdle
    /\ outbound = OutboundIdle

(***************************************************************************)
(* Access controller: a SUBSCRIBE action of the inbound middleware.  The   *)
(* handler awaits the pre filter, then applyPostAccessFilter, which        *)
(* preloads the resource and awaits the post filter.  `did` lists what the *)
(* handler has done so far: "pre" (pre filter called), "fetch" (resource   *)
(* loaded and attached to the request), "post" (post filter called);       *)
(* `pre` is what the model's pre filter answers to this action.            *)
(***************************************************************************)
\* JSON.parse of the params text of a view channel name.
ParseViewParams(params) ==
    [f \in AllFields |->
        IF \E i \in 1..Len(params) : params[i][1] = f
        THEN params[CHOOSE i \in 1..Len(params) : params[i][1] = f][2]
        ELSE Undef]

\* The viewParams parseChannelResourceQuery yields for a channel.
ChannelViewParams(channel) ==
    IF channel.shape = "view" THEN Some(ParseViewParams(channel.params))
    ELSE NullResource

\* The channels a client subscribes to.
SubscribeChannels ==
    {GetResourceChannelName("Item", TheId),
     GetViewChannelName("byOwner", [EmptyObject EXCEPT !["owner"] = "u1"],
                        "Item"),
     GetViewChannelName("ranked", EmptyObject, "Item"),
     GetViewChannelName("nope", EmptyObject, "Item"),
     OtherChannel}

\* action.data.viewParams of a SUBSCRIBE: absent, or an object.
SubscribeViewParams ==
    {NullResource,
     Some([EmptyObject EXCEPT !["owner"] = "u1"]),
     Some([EmptyObject EXCEPT !["owner"] = "u2"])}

\* channelResourceQuery after the viewParams of action.data were put in
\* the place of the parsed ones.
SubscribeQuery(channel, dataViewParams) ==
    [action |-> "subscribe",
     type |-> ParseChannelResourceQuery(channel).type,
     id |-> ParseChannelResourceQuery(channel).id,
     field |-> ParseChannelResourceQuery(channel).field,
     view |-> ParseChannelResourceQuery(channel).view,
     viewParams |->
        IF ParseChannelResourceQuery(channel).view # Undef
           /\ ~dataViewParams.isNull
        THEN dataViewParams
        ELSE ChannelViewParams(channel)]

\* The query as validateQuery looks at it.
ValidatedSubscribeQuery(query) ==
    [action |-> query.action, type |-> query.type, id |-> query.id,
     field |-> query.field, view |-> query.view,
     viewParams |-> IF query.viewParams.isNull THEN Undef ELSE "object",
     pageSize |-> NoPageSize]

\* new Error('Failed to preload resource due to an unexpected error') /
\* new Error('Executed an invalid query transformation')
PreloadError == [name |-> "Error", type |-> Undef]

NoSubscribeQuery ==
    [action |-> Undef, type |-> Undef, id |-> Undef, field |-> Undef,
     view |-> Undef, viewParams |-> NullResource]

SubscribeIdle ==
    [pc |-> "idle", channel |-> OtherChannel, query |-> NoSubscribeQuery,
     customThrew |-> FALSE, pre |-> Undef, did |-> <<>>, threw |-> {},
     result |-> Unhandled]

Handled(action, did, threw, result) ==
    [action EXCEPT !.pc = "handled", !.did = did, !.threw = threw,
                   !.result = result]

\* continueWithPostAccessFilter up to the first await inside
\* applyPostAccessFilter: with a post filter the resource is preloaded,
\* without one blockPostByDefault decides.
ContinueWithPostAccessFilter(action, did) ==
    IF postOptions.post
    THEN [action EXCEPT !.pc = "fetching", !.did = did]
    ELSE IF postOptions.blockPostByDefault
    THEN Handled(action, did, {"post"}, Block(CRUDBlockedError("post")))
    ELSE Handled(action, did, {}, Allow)

\* A variant of SubscribeAfterPre that goes on after a pre filter threw.
SubscribeIgnoringPre(action, pre) ==
    ContinueWithPostAccessFilter(action,
        IF HasPreAccessFilter(options, action.query.type) THEN <<"pre">>
        ELSE <<>>)

\* The SUBSCRIBE branch from the pre filter on.
SubscribeAfterPre(action, pre) ==
    IF HasPreAccessFilter(options, action.query.type)
    THEN IF pre = "returns"
         THEN ContinueWithPostAccessFilter(action, <<"pre">>)
         ELSE Handled(action, <<"pre">>, {"pre"}, PreAccessFilterOutcome(pre))
    ELSE IF options.blockPreByDefault
    THEN Handled(action, <<>>, {"pre"}, Block(CRUDBlockedError("pre")))
    ELSE ContinueWithPostAccessFilter(action, <<>>)

\* The SUBSCRIBE branch up to validateQuery.
SubscribeBeforePre(action, customThrows, pre) ==
    IF options.middleware /\ customThrows
    THEN Handled(action, <<>>, {"middleware"}, Block(MiddlewareError))
    ELSE IF ParseChannelResourceQuery(action.channel).isNull
    THEN Handled(action, <<>>, {}, Allow)
    ELSE IF ~ValidateQuery(ValidatedSubscribeQuery(action.query))
    THEN Handled(action, <<>>, {"pre"}, Block(CRUDBlockedError("pre")))
    ELSE SubscribeAfterPre(action, pre)

\* The inbound middleware takes a SUBSCRIBE action and handles it up to
\* the preload of the resource.
Subscribe ==
    /\ subscribe.pc = "idle"
    /\ inbound.pc = "idle"
    /\ \E channel \in SubscribeChannels, data \in SubscribeViewParams,
          customThrows \in BOOLEAN, pre \in {"returns", "boolean", "error"} :
          subscribe' =
             SubscribeBeforePre(
                [SubscribeIdle EXCEPT
                    !.channel = channel,
                    !.query = SubscribeQuery(channel, data),
                    !.customThrew = (options.middleware /\ customThrows),
                    !.pre = pre],
                customThrows, pre)
    /\ UNCHANGED <<postOptions, requests, writeVars, readVars, mwVars, calls,
                   cacheVars>>

\* applyPostAccessFilter: cache.pass (a resource) or the view's query (a
\* collection) settles; the result is attached as request.resource.
SubscribeFetch(loaded) ==
    /\ subscribe.pc = "fetching"
    /\ subscribe' =
          IF loaded
          THEN [subscribe EXCEPT !.pc = "filtering",
                                 !.did = Append(@, "fetch")]
          ELSE Handled(subscribe, subscribe.did, {"post"}, Block(PreloadError))
    /\ UNCHANGED <<postOptions, requests, writeVars, readVars, mwVars, calls,
                   cacheVars>>

\* applyPostAccessFilter: the post filter returns or throws.
SubscribePostFilter(post) ==
    /\ subscribe.pc = "filtering"
    /\ subscribe' =
          IF post = "returns"
          THEN Handled(subscribe, Append(subscribe.did, "post"), {}, Allow)
          ELSE Handled(subscribe, Append(subscribe.did, "post"), {"post"},
                       IF post = "boolean"
                       THEN Block(CRUDBlockedError("post"))
                       ELSE Block(FilterError))
    /\ UNCHANGED <<postOptions, requests, writeVars, readVars, mwVars, calls,
                   cacheVars>>

\* The stream consumer takes the next action.
SubscribeNext ==
    /\ subscribe.pc = "handled"
    /\ subscribe' = SubscribeIdle
    /\ UNCHANGED <<postOptions, requests, writeVars, readVars, mwVars, calls,
                   cacheVars>>

(***************************************************************************)
(* _attachSocket: the requests received on one socket.  Every procedure    *)
(* (create, read, update, delete) has its own stream and its own consumer  *)
(* loop, which awaits the operation of one request before it takes the     *)
(* next.  `requests` lists the requests in the order the socket received   *)
(* them.                                                                   *)
(***************************************************************************)
Procedures == {"create", "read", "update", "delete"}

MaxRequests == 3

\* The socket receives a request for `procedure`.
Receive(procedure) ==
    /\ Len(requests) < MaxRequests
    /\ requests' = Append(requests, [procedure |-> procedure,
                                     state |-> "queued"])
    /\ UNCHANGED <<postOptions, subscribe, writeVars, readVars, mwVars, calls,
                   cacheVars>>

\* Request i is the one the consumer loop of its procedure takes next: the
\* loop is not awaiting an earlier request of the same procedure.
IsNextOfStream(list, i) ==
    \A j \in 1..(i - 1) :
        list[j].procedure = list[i].procedure => list[j].state = "answered"

\* The consumer loop of the request's procedure takes request i and calls
\* _create / _read / _update / _delete.
Begin(i) ==
    /\ requests[i].state = "queued"
    /\ IsNextOfStream(requests, i)
    /\ requests' = [requests EXCEPT ![i].state = "processing"]
    /\ UNCHANGED <<postOptions, subscribe, writeVars, readVars, mwVars, calls,
                   cacheVars>>

\* The operation settles: request.end(result) or request.error(error).
Answer(i) ==
    /\ requests[i].state = "processing"
    /\ requests' = [requests EXCEPT ![i].state = "answered"]
    /\ UNCHANGED <<postOptions, subscribe, writeVars, readVars, mwVars, calls,
                   cacheVars>>

\* No call for a socket, no SUBSCRIBE, no request.
AccessIdle ==
    /\ subscribe = SubscribeIdle
    /\ requests = <<>>

(***************************************************************************)
(* The cache object (cache.js), for the one resource path Item/i1.  A      *)
(* loaded document is kept as the value of its one field f, Undef for a    *)
(* provider that resolves with undefined.                                  *)
(***************************************************************************)
ResourcePath == "Item/i1"

Callers == {"a1", "a2", "a3"}

LoadValues == {Undef, "loaded"}

\* The pending entry of a miss, {pending: true, patch}; patch is the value
\* written to f, Undef for {}.
Placeholder(patch) == [pending |-> TRUE, patch |-> patch, resource |-> Undef]

\* The entry of a load, {resource: data}.
Loaded(data) == [pending |-> FALSE, patch |-> Undef, resource |-> data]

IdlePass == [pc |-> "idle", value |-> Undef, provider |-> Undef]

\* The events the cache emits, counted by name ('update' is not counted).
Emit(name) == [emitted EXCEPT ![name] = @ + 1]

\* A faulty variant of ClearTimeout: the timer stays armed.
ClearTimeoutSkipped(armed, entries) == armed

\* clearTimeout(entry.timeout) for the stored entry, if there is one.
ClearTimeout(armed, entries) ==
    IF ResourcePath \in DOMAIN entries
    THEN armed \ {entries[ResourcePath].timeout} ELSE armed

\* setTimeout: the id of the new timer, which no armed timer has.
SetTimeout(armed) ==
    CHOOSE t \in 1..(Cardinality(armed) + 1) :
        t \notin armed /\ \A u \in 1..(t - 1) : u \in armed

\* Cache.get
CacheGet == cacheEntries[ResourcePath].resource

\* Cache.set(query, data): the previous entry's timer is cancelled, a new
\* one is armed, and {resource: data, timeout} is stored.
CacheSet(data) ==
    /\ timers' = ClearTimeout(timers, cacheEntries)
                 \cup {SetTimeout(ClearTimeout(timers, cacheEntries))}
    /\ cacheEntries' =
           [p \in {ResourcePath} |->
               [resource |-> data,
                timeout |-> SetTimeout(ClearTimeout(timers, cacheEntries))]]

\* delete this._cache[resourcePath]
CacheDelete == cacheEntries' = [p \in {} |-> 0]

\* _resolveCacheWatchers: every watcher's promise resolves with data;
\* provider names the load the data come from, or "cache".
ResolveWatchers(waiting, data, provider) ==
    [c \in Callers |->
        IF c \in waiting
        THEN [pc |-> "resolved", value |-> data, provider |-> provider]
        ELSE passes[c]]

\* _rejectCacheWatchers
RejectWatchers(waiting, provider) ==
    [c \in Callers |->
        IF c \in waiting
        THEN [pc |-> "rejected", value |-> Undef, provider |-> provider]
        ELSE passes[c]]

\* freshCacheEntry.patch, read from the stored entry {resource, timeout}.
FreshCacheEntryPatch ==
    IF /\ ResourcePath \in DOMAIN cacheEntries
       /\ "patch" \in DOMAIN cacheEntries[ResourcePath]
    THEN cacheEntries[ResourcePath].patch ELSE Undef

\* data[field] = cacheEntryPatch[field] for the fields of the patch.
ApplyPatch(data, patch) == IF patch # Undef THEN patch ELSE data

\* Cache.pass(query, provider) up to the provider's first await.
Pass(c) ==
    /\ passes[c].pc = "idle"
    /\ IF ResourcePath \in DOMAIN cacheEntries
       THEN IF CacheGet.pending
            THEN /\ emitted' = Emit("hit")
                 /\ cacheWatchers' = cacheWatchers \cup {c}
                 /\ passes' = [passes EXCEPT ![c].pc = "waiting"]
                 /\ UNCHANGED <<cacheEntries, timers, providers>>
            ELSE /\ emitted' = Emit("hit")
                 /\ CacheSet(CacheGet)
                 /\ passes' = ResolveWatchers(cacheWatchers \cup {c},
                                              CacheGet.resource, "cache")
                 /\ cacheWatchers' = {}
                 /\ UNCHANGED providers
       ELSE /\ emitted' = [emitted EXCEPT !.miss = @ + 1, !.set = @ + 1]
            /\ CacheSet(Placeholder(Undef))
            /\ cacheWatchers' = cacheWatchers \cup {c}
            /\ providers' = providers \cup {c}
            /\ passes' = [passes EXCEPT ![c].pc = "waiting"]
    /\ UNCHANGED <<writeVars, readVars, mwVars, calls, accessVars>>

\* The provider started by the pass of p resolves with data: the rest of
\* the miss branch.
ProviderResolves(p, data) ==
    /\ p \in providers
    /\ providers' = providers \ {p}
    /\ CacheSet(Loaded(ApplyPatch(data, FreshCacheEntryPatch)))
    /\ emitted' = Emit("set")
    /\ passes' = ResolveWatchers(cacheWatchers,
                                 ApplyPatch(data, FreshCacheEntryPatch), p)
    /\ cacheWatchers' = {}
    /\ UNCHANGED <<writeVars, readVars, mwVars, calls, accessVars>>

\* The provider started by the pass of p rejects: the catch branch.
ProviderRejects(p) ==
    /\ p \in providers
    /\ providers' = providers \ {p}
    /\ passes' = RejectWatchers(cacheWatchers, p)
    /\ cacheWatchers' = {}
    /\ UNCHANGED <<cacheEntries, timers, emitted>>
    /\ UNCHANGED <<writeVars, readVars, mwVars, calls, accessVars>>

\* Cache.clear(query) of a stored entry.
Clear ==
    /\ ResourcePath \in DOMAIN cacheEntries
    /\ timers' = ClearTimeout(timers, cacheEntries)
    /\ CacheDelete
    /\ emitted' = Emit("clear")
    /\ UNCHANGED <<cacheWatchers, providers, passes>>
    /\ UNCHANGED <<writeVars, readVars, mwVars, calls, accessVars>>

\* Cache.update({type, id, value: {f: value}}): the value goes into the
\* patch of a pending entry, into the resource of a loaded one (a resource
\* that is undefined makes the assignment throw).
Update(value) ==
    /\ ResourcePath \in DOMAIN cacheEntries
    /\ IF CacheGet.pending
       THEN cacheEntries' =
                [cacheEntries EXCEPT ![ResourcePath].resource.patch = value]
       ELSE /\ CacheGet.resource # Undef
            /\ cacheEntries' =
                [cacheEntries EXCEPT
                    ![ResourcePath].resource.resource = value]
    /\ UNCHANGED <<timers, cacheWatchers, providers, passes, emitted>>
    /\ UNCHANGED <<writeVars, readVars, mwVars, calls, accessVars>>

\* The callback of the armed timer t: the entry is deleted and 'expire' is
\* emitted.
Timeout(t) ==
    /\ t \in timers
    /\ timers' = timers \ {t}
    /\ CacheDelete
    /\ emitted' = Emit("expire")
    /\ UNCHANGED <<cacheWatchers, providers, passes>>
    /\ UNCHANGED <<writeVars, readVars, mwVars, calls, accessVars>>

\* new Cache(options): nothing stored, no watcher, no timer.
CacheIdle ==
    /\ cacheEntries = [p \in {} |-> 0]
    /\ cacheWatchers = {}
    /\ timers = {}
    /\ providers = {}
    /\ passes = [c \in Callers |-> IdlePass]
    /\ emitted = [hit |-> 0, miss |-> 0, set |-> 0, expire |-> 0, clear |-> 0]

(***************************************************************************)
(* The state machines.                                                     *)
(***************************************************************************)
Init ==
    /\ db \in {NullResource, Some([id |-> TheId, owner |-> "u1", rank |-> "r1"])}
    /\ WritesIdle
    /\ ReadsIdle
    /\ options = DefaultOptions
    /\ MiddlewareIdle
    /\ postOptions = DefaultPostOptions
    /\ AccessIdle
    /\ CacheIdle

Next ==
    \/ \E w \in Writers, v \in CreateValues : Create(w, v)
    \/ \E w \in Writers, q \in UpdateFieldQueries \cup UpdateWholeQueries :
           UpdateLoad(w, q)
    \/ \E w \in Writers : UpdateSave(w)
    \/ \E w \in Writers, q \in DeleteQueries : DeleteLoad(w, q)
    \/ \E w \in Writers : DeleteSave(w)
    \/ \E w \in Writers, o \in NotifyResources, n \in NotifyResources :
           NotifyUpdateCall(w, o, n)
    \/ \E w \in Writers : Finish(w)

Spec == Init /\ [][Next]_vars

ReadInit ==
    /\ db = NullResource
    /\ WritesIdle
    /\ ReadsIdle
    /\ options = DefaultOptions
    /\ MiddlewareIdle
    /\ postOptions = DefaultPostOptions
    /\ AccessIdle
    /\ CacheIdle

ReadNext ==
    \/ \E r \in Readers : Read(r)
    \/ HandleResourceSubscribe
    \/ HandleResourceSubscribeFailure
    \/ WriteDb
    \/ WritePublish
    \/ HandleResourceChange
    \/ Expire
    \/ \E c \in Prefetchers : Prefetch(c)
    \/ \E f \in fetches : FetchRead(f)
    \/ \E f \in fetches : FetchComplete(f)
    \/ \E f \in fetches : FetchFail(f)

SpecRead == ReadInit /\ [][ReadNext]_vars

MwInit ==
    /\ db = NullResource
    /\ WritesIdle
    /\ ReadsIdle
    /\ options \in AccessControllerOptions
    /\ MiddlewareIdle
    /\ postOptions = DefaultPostOptions
    /\ AccessIdle
    /\ CacheIdle

MwNext ==
    \/ Invoke
    \/ \E customThrows \in BOOLEAN, channel \in PublishInChannels :
           PublishIn(customThrows, channel)
    \/ InboundNext
    \/ \E data \in PublishedData : TransmitPublish(data)
    \/ \E s \in Sockets, customThrows \in BOOLEAN : PublishOut(s, customThrows)
    \/ OutboundNext

SpecMw == MwInit /\ [][MwNext]_vars

\* Write operations called for a socket or by the server, with the post
\* access filter and the validation of the public methods.
CallInit ==
    /\ db = Some([id |-> TheId, owner |-> "u1", rank |-> "r1"])
    /\ WritesIdle
    /\ ReadsIdle
    /\ options = DefaultOptions
    /\ MiddlewareIdle
    /\ postOptions \in PostOptions
    /\ AccessIdle
    /\ CacheIdle

CallNext ==
    \/ \E w \in Writers : AttachedCall(w)
    \/ \E w \in Writers, a \in {"create", "update", "delete"} :
           InvalidCall(w, a)
    \/ \E w \in Writers : Create(w, [id |-> TheId, owner |-> "u1", rank |-> "r1"])
    \/ \E w \in Writers, q \in {u \in UpdateFieldQueries : u.field = "owner"} :
           UpdateLoad(w, q)
    \/ \E w \in Writers, outcome \in {"returns", "boolean", "error"} :
           ApplyPostAccessFilter(w, outcome)
    \/ \E w \in Writers : UpdateSave(w)
    \/ \E w \in Writers, q \in DeleteQueries : DeleteLoad(w, q)
    \/ \E w \in Writers : DeleteSave(w)
    \/ \E w \in Writers : Finish(w)

SpecCall == CallInit /\ [][CallNext]_vars

\* The SUBSCRIBE actions of the inbound middleware.
SubInit ==
    /\ db = NullResource
    /\ WritesIdle
    /\ ReadsIdle
    /\ options \in AccessControllerOptions
    /\ MiddlewareIdle
    /\ postOptions \in PostOptions
    /\ AccessIdle
    /\ CacheIdle

SubNext ==
    \/ Subscribe
    \/ \E loaded \in BOOLEAN : SubscribeFetch(loaded)
    \/ \E post \in {"returns", "boolean", "error"} : SubscribePostFilter(post)
    \/ SubscribeNext

SpecSub == SubInit /\ [][SubNext]_vars

\* The requests of one socket.
SocketInit ==
    /\ db = NullResource
    /\ WritesIdle
    /\ ReadsIdle
    /\ options = DefaultOptions
    /\ MiddlewareIdle
    /\ postOptions = DefaultPostOptions
    /\ AccessIdle
    /\ CacheIdle

SocketNext ==
    \/ \E procedure \in Procedures : Receive(procedure)
    \/ \E i \in 1..Len(requests) : Begin(i)
    \/ \E i \in 1..Len(requests) : Answer(i)

SpecSocket == SocketInit /\ [][SocketNext]_vars

(***************************************************************************)
(* Properties of the write operations (Spec).                              *)
(***************************************************************************)
FinishedWrites(actions) ==
    {w \in Writers : ops[w].pc = "done" /\ ops[w].query.action \in actions}

IsOn(pub, shapes) == pub.channel.shape \in shapes

\* C1: in the publications of every completed write (create, update,
\* delete of a document or of a field, notifyUpdate), a publication on the
\* resource channel crud>Item/i1 comes before every publication on a field
\* channel or a view channel.
ResourceChannelFirst ==
    \A w \in FinishedWrites({"create", "update", "delete", "notifyUpdate"}) :
        \A j \in 1..Len(ops[w].pubs) :
            IsOn(ops[w].pubs[j], {"field", "view"}) =>
                \E i \in 1..(j - 1) :
                    ops[w].pubs[i].channel = GetResourceChannelName("Item", TheId)

\* An update has finished that published on a field channel and on a view
\* channel.
ResourceChannelFirstWitness ==
    \E w \in FinishedWrites({"update"}) :
        /\ \E j \in 1..Len(ops[w].pubs) : IsOn(ops[w].pubs[j], {"field"})
        /\ \E j \in 1..Len(ops[w].pubs) : IsOn(ops[w].pubs[j], {"view"})

\* The publications among pubs on the channels of the view viewData names.
PublicationsOfView(pubs, viewData) ==
    SelectSeq(pubs, LAMBDA p : /\ p.channel.shape = "view"
                               /\ p.channel.view = viewData.view
                               /\ p.channel.type = viewData.type)

\* The rule of C4 for one view, given its publications.
FollowsViewChange(viewPubs, old, new) ==
    IF JsonStableStringify(old.params) = JsonStableStringify(new.params)
    THEN IF JsonStableStringify(old.affectingData)
              = JsonStableStringify(new.affectingData)
         THEN viewPubs = <<>>
         ELSE /\ Len(viewPubs) = 1
              /\ viewPubs[1].payload.type = "update"
              /\ viewPubs[1].channel.params = JsonStableStringify(new.params)
    ELSE /\ Len(viewPubs) = 2
         /\ \A i \in 1..2 : viewPubs[i].payload.type = "update"
         /\ {viewPubs[1].channel.params, viewPubs[2].channel.params}
              = {JsonStableStringify(old.params),
                 JsonStableStringify(new.params)}

UpdateFollowsViewChanges(op, newViews) ==
    \A k \in 1..Len(newViews) :
        FollowsViewChange(PublicationsOfView(op.pubs, newViews[k]),
                          OldViewDataFor(op.oldAffectedViewData, newViews[k]),
                          newViews[k])

\* C4: for every successful update and every affected view of the document
\* as the update left it: params unchanged and affectingData changed -
\* exactly one 'update' publication, on the view's current channel; params
\* changed - exactly two, on the old and on the new channel; neither
\* changed - no publication for the view.
UpdatePublishesViewChanges ==
    \A w \in FinishedWrites({"update"}) :
        UpdateFollowsViewChanges(ops[w],
            GetQueryAffectedViews(ops[w].query, ops[w].after))

CreatePublishesViews(pubs, id, views) ==
    /\ Len(pubs) = 1 + Len(views)
    /\ pubs[1].channel = GetResourceChannelName("Item", id)
    /\ \A k \in 1..Len(views) :
          /\ pubs[k + 1].payload.type = "create"
          /\ pubs[k + 1].channel.shape = "view"
          /\ pubs[k + 1].channel.view = views[k].view
          /\ pubs[k + 1].channel.type = views[k].type
          /\ pubs[k + 1].channel.params = JsonStableStringify(views[k].params)

\* C5: every successful create publishes on the resource channel of the
\* inserted id and then exactly one 'create' on the view channel of each
\* view the View-Affect Engine returns for the inserted resource (own and
\* foreign views), the channel computed from that view's params.
CreatePublishesEachView ==
    \A w \in FinishedWrites({"create"}) :
        CreatePublishesViews(ops[w].pubs, ops[w].after.doc["id"],
            GetAffectedViews("Item", ops[w].after, FALSE, <<>>))

\* A create has finished whose publications include one on the channel of
\* the foreign view ownedItems.
CreatePublishesEachViewWitness ==
    \E w \in FinishedWrites({"create"}) :
        \E j \in 1..Len(ops[w].pubs) :
            /\ ops[w].pubs[j].channel.view = "ownedItems"
            /\ ops[w].pubs[j].channel.type = "User"

HasPublication(pubs, channel, opType) ==
    \E i \in 1..Len(pubs) :
        pubs[i].channel = channel /\ pubs[i].payload.type = opType

DeletePublishesAll(pubs, fields, views) ==
    /\ \E i \in 1..Len(pubs) :
          pubs[i].channel = GetResourceChannelName("Item", TheId)
    /\ \A k \in 1..Len(fields) :
          HasPublication(pubs,
              GetResourcePropertyChannelName("Item", TheId, fields[k]),
              "delete")
    /\ \A k \in 1..Len(views) :
          HasPublication(pubs,
              GetViewChannelName(views[k].view, views[k].params, views[k].type),
              "delete")

\* C6: every successful delete of a whole document publishes on the
\* resource channel, {type: 'delete'} on the field channel of every field
\* the model declares, and 'delete' on the view channel of every view
\* affected by the snapshot loaded before the delete.
WholeDeletePublishesAll ==
    \A w \in FinishedWrites({"delete"}) :
        ops[w].query.field = Undef =>
            DeletePublishesAll(ops[w].pubs, ModelFields("Item"),
                GetAffectedViews("Item", ops[w].oldResource, FALSE, <<>>))

\* A delete of the whole document has finished that had loaded an existing
\* document.
WholeDeletePublishesAllWitness ==
    \E w \in FinishedWrites({"delete"}) :
        /\ ops[w].query.field = Undef
        /\ ~ops[w].oldResource.isNull
        /\ Len(ops[w].pubs) > 1

\* C7: in the publications of every single write (create, update, delete
\* of a document or of a field), every publication on a field channel
\* comes before every publication on a view channel.
FieldChannelsBeforeViewChannels ==
    \A w \in FinishedWrites({"create", "update", "delete"}) :
        \A i, j \in 1..Len(ops[w].pubs) :
            (IsOn(ops[w].pubs[i], {"view"}) /\ IsOn(ops[w].pubs[j], {"field"}))
                => j < i

(***************************************************************************)
(* Properties of read by id (SpecRead).                                    *)
(***************************************************************************)
\* C2: when the reads were all issued while the cache had no entry and
\* have all been handed to the cache, and no fetch is outstanding, the
\* database has been queried exactly once and every read has resolved, all
\* with the same resource.
ConcurrentReadsShareOneFetch ==
    (/\ \A r \in Readers :
           readers[r].noEntry /\ readers[r].pc \in {"passed", "resolved"}
     /\ fetches = {}
     /\ cache.state # "pending")
    => /\ dbQueries = 1
       /\ \A r \in Readers : readers[r].pc = "resolved"
       /\ \A q, r \in Readers : readers[q].data = readers[r].data

\* C3: a Cache.pass call answered from the cache is never answered with a
\* document older than a write whose publication the engine had handled
\* by then.
CacheStaleFree ==
    \A c \in Prefetchers :
        (/\ prefetch[c].pc = "answered"
         /\ prefetch[c].fromCache
         /\ prefetch[c].data.defined)
        => prefetch[c].data.ver >= prefetch[c].handled

(***************************************************************************)
(* Properties of the access controller (SpecMw).                           *)
(***************************************************************************)
\* The PUBLISH_OUT action of socket s was for the publisher's own socket
\* and carried no publisherId, and has been handled.
IsEcho(s) ==
    /\ outbound.pc = "sending"
    /\ outbound.data.kind = "object"
    /\ outbound.data.publisherSocketId = s
    /\ outbound.data.publisherId = Undef
    /\ outbound.results[s].decision # "none"

Delivered(t) ==
    /\ outbound.results[t].decision = "allow"
    /\ outbound.results[t].data.kind = "object"
    /\ outbound.results[t].data.type = outbound.data.type
    /\ outbound.results[t].data.publisherSocketId = Undef
    /\ outbound.results[t].data.publisherId = Undef

\* C8 (as stated): a PUBLISH_OUT whose payload has publisherSocketId equal
\* to the receiving socket's id and no publisherId is blocked, and the
\* same publication is delivered to every other subscribed socket.
EchoBlockedOthersDelivered ==
    \A s \in Sockets :
        IsEcho(s) =>
            /\ outbound.results[s].decision = "block"
            /\ \A t \in Sockets \ {s} :
                  outbound.results[t].decision # "none" => Delivered(t)

\* C8 (amended): a PUBLISH_OUT whose payload has publisherSocketId equal
\* to the receiving socket's id and no publisherId is blocked, and the
\* same publication is delivered, without the publisher's ids, to every
\* other subscribed socket for which the custom PUBLISH_OUT middleware
\* does not throw.
EchoBlockedOthersDeliveredUnlessMiddlewareThrows ==
    \A s \in Sockets :
        IsEcho(s) =>
            /\ outbound.results[s].decision = "block"
            /\ \A t \in Sockets \ {s} :
                  (outbound.results[t].decision # "none"
                   /\ ~outbound.customThrew[t]) => Delivered(t)

\* The echo to s1 was blocked silently and the publication was delivered
\* to s2 and s3.
EchoBlockedWitness ==
    /\ IsEcho("s1")
    /\ outbound.results["s1"].error = BlockedSilently
    /\ Delivered("s2")
    /\ Delivered("s3")

\* C9: every PUBLISH_IN on a channel that parses as a CRUD resource query
\* is blocked, with CRUDPublishNotAllowedError or with the custom
\* middleware's error, whatever the access filters, blockPreByDefault and
\* the custom middleware are.
PublishInOnCrudChannelBlocked ==
    (/\ inbound.pc = "handled"
     /\ inbound.type = "PUBLISH_IN"
     /\ ~ParseChannelResourceQuery(inbound.channel).isNull)
    => /\ inbound.result.decision = "block"
       /\ inbound.result.error \in {CRUDPublishNotAllowedError, MiddlewareError}

\* A PUBLISH_IN on a view channel was blocked although a custom middleware
\* function returned, a pre filter is declared and blockPreByDefault is
\* unset.
PublishInOnCrudChannelBlockedWitness ==
    /\ inbound.pc = "handled"
    /\ inbound.type = "PUBLISH_IN"
    /\ inbound.channel.shape = "view"
    /\ options.middleware /\ ~inbound.customThrew
    /\ options.pre /\ ~options.blockPreByDefault
    /\ inbound.result = Block(CRUDPublishNotAllowedError)

IsCrudInvoke ==
    /\ inbound.pc = "handled"
    /\ inbound.type = "INVOKE"
    /\ inbound.procedure = "crud"

\* The conditions C10 lists for an INVOKE to be allowed.
PassesPreChecks ==
    /\ ValidateQuery(inbound.query)
    /\ ~(/\ inbound.query.action = "read"
         /\ inbound.query.view # Undef
         /\ inbound.query.pageSize.kind = "number"
         /\ ~options.maxPageSize.isNull
         /\ inbound.query.pageSize.n > options.maxPageSize.n)
    /\ \/ options.pre /\ inbound.pre = "returns"
       \/ ~options.pre /\ ~options.blockPreByDefault

\* The pre filter was invoked and threw: a boolean gives a
\* CRUDBlockedError of type 'pre', anything else is the block error.
PreFilterErrorPassedOn ==
    (/\ ~inbound.customThrew
     /\ inbound.result.decision = "block"
     /\ inbound.result.error # CRUDBlockedError("pre"))
    => (options.pre /\ inbound.pre = "error"
        /\ inbound.result.error = FilterError)

SubscribeOnCrudChannel ==
    /\ subscribe.pc # "idle"
    /\ ~ParseChannelResourceQuery(subscribe.channel).isNull
    /\ ~subscribe.customThrew

\* The pre phase of the SUBSCRIBE passes: the query is valid, and the pre
\* filter returns or, without one, blockPreByDefault is off.
SubscribePrePasses ==
    /\ ValidateQuery(ValidatedSubscribeQuery(subscribe.query))
    /\ IF HasPreAccessFilter(options, subscribe.query.type)
       THEN subscribe.pre = "returns"
       ELSE ~options.blockPreByDefault

\* C11: for a SUBSCRIBE on a CRUD channel the post filter is called only
\* after the pre phase passed and the resource was fetched and attached; when
\* the pre phase blocks, neither the fetch nor the post filter happens and
\* the action is blocked; the action is allowed only if no phase threw.
SubscribePostOnlyAfterPreAndFetch ==
    SubscribeOnCrudChannel =>
        /\ (\E i \in 1..Len(subscribe.did) : subscribe.did[i] = "post") =>
              /\ SubscribePrePasses
              /\ Len(subscribe.did) >= 2
              /\ subscribe.did[Len(subscribe.did)] = "post"
              /\ subscribe.did[Len(subscribe.did) - 1] = "fetch"
        /\ (\E i \in 1..Len(subscribe.did) : subscribe.did[i] = "fetch") =>
              SubscribePrePasses
        /\ ~SubscribePrePasses =>
              /\ subscribe.pc = "handled"
              /\ subscribe.result.decision = "block"
              /\ \A i \in 1..Len(subscribe.did) : subscribe.did[i] = "pre"
        /\ (subscribe.pc = "handled" /\ subscribe.result.decision = "allow") =>
              /\ SubscribePrePasses
              /\ subscribe.threw = {}
              /\ postOptions.post =>
                    subscribe.did[Len(subscribe.did)] = "post"
              /\ ~postOptions.post => ~postOptions.blockPostByDefault

\* A SUBSCRIBE on a CRUD channel was allowed after the pre filter, the
\* preload and the post filter ran in this order.
SubscribePostOnlyAfterPreAndFetchWitness ==
    /\ SubscribeOnCrudChannel
    /\ subscribe.pc = "handled"
    /\ subscribe.result.decision = "allow"
    /\ subscribe.did = <<"pre", "fetch", "post">>

(***************************************************************************)
(* Properties of calls made for a socket and of failing calls (SpecCall).  *)
(***************************************************************************)
\* The update and delete operations in progress or settled.
SocketWrites ==
    {w \in Writers : /\ calls[w].socket # Undef
                     /\ ops[w].query.action \in {"update", "delete"}}

\* C12: an update or delete made for a socket has written to the database
\* only if applyPostAccessFilter accepted the loaded document before (with
\* the model's post filter called when one is declared); when it rejected,
\* the operation has failed without a write and without a publication; for
\* a call without a socket the post filter is never called.
WriteOnlyAfterPostAccessFilter ==
    \A w \in Writers :
        /\ (w \in SocketWrites
            /\ (ops[w].pc = "done" \/ ops[w].error = "DatabaseError")) =>
              /\ calls[w].filter = "passed"
              /\ postOptions.post => calls[w].invoked
        /\ calls[w].filter = "blocked" =>
              /\ ops[w].pc = "failed"
              /\ ops[w].pubs = <<>>
              /\ ops[w].before = NullResource /\ ops[w].after = NullResource
              /\ ops[w].result = NullResource
        /\ calls[w].socket = Undef =>
              ~calls[w].invoked /\ calls[w].filter = "none"

\* An update made for a socket was written after the post filter accepted,
\* while a delete made for the same socket was rejected by it.
WriteOnlyAfterPostAccessFilterWitness ==
    \E w, x \in SocketWrites :
        /\ ops[w].pc = "done" /\ ops[w].query.action = "update"
        /\ calls[w].invoked /\ ops[w].pubs # <<>>
        /\ calls[x].filter = "blocked" /\ ops[x].query.action = "delete"

(***************************************************************************)
(* Properties of the requests of one socket (SpecSocket).                  *)
(***************************************************************************)
\* C13: of two requests received on one socket, whatever their procedures,
\* the later one is not taken for processing before the earlier one has
\* been answered.
RequestsProcessedInArrivalOrder ==
    \A i, j \in 1..Len(requests) :
        (i < j /\ requests[j].state # "queued") =>
            requests[i].state = "answered"

\* C14: every create, update or delete call that has failed, whatever the
\* cause, has emitted 'error' and its createFail / updateFail / deleteFail
\* event.
FailedCallEmitsErrorAndFailEvent ==
    \A w \in Writers :
        (ops[w].pc \in {"failed", "rejected"}
         /\ ops[w].query.action \in {"create", "update", "delete"}) =>
            {"error", FailEvent(ops[w].query.action)} \subseteq ops[w].events

(***************************************************************************)
(* Properties of the delivered payloads (SpecMw).                          *)
(***************************************************************************)
\* C15: a payload the outbound middleware delivers never has
\* publisherSocketId; delivered to a socket that is not the publisher's it
\* has no publisherId either; delivered to the publisher's socket it has
\* the publisherId of the publication.
DeliveredPayloadStripped ==
    \A s \in Sockets :
        (outbound.results[s].decision = "allow"
         /\ outbound.data.kind = "object") =>
            /\ outbound.results[s].data.kind = "object"
            /\ outbound.results[s].data.type = outbound.data.type
            /\ outbound.results[s].data.publisherSocketId = Undef
            /\ IF outbound.data.publisherSocketId = s
               THEN /\ outbound.data.publisherId # Undef
                    /\ outbound.results[s].data.publisherId =
                          outbound.data.publisherId
               ELSE outbound.results[s].data.publisherId = Undef

\* A publication of socket s1 with a publisherId was delivered to s1 with
\* the publisherId and to s2 without it.
DeliveredPayloadStrippedWitness ==
    /\ outbound.data.kind = "object"
    /\ outbound.data.publisherSocketId = "s1"
    /\ outbound.data.publisherId = "p1"
    /\ outbound.results["s1"].decision = "allow"
    /\ outbound.results["s1"].data.publisherId = "p1"
    /\ outbound.results["s2"].decision = "allow"
    /\ outbound.results["s2"].data.publisherId = Undef

(***************************************************************************)
(* Properties of the SUBSCRIBE query (SpecSub).                            *)
(***************************************************************************)
\* C16: the viewParams of the query a SUBSCRIBE to a view channel hands to
\* the pre and post filters and to the preload agree with the params of the
\* channel name on every field the channel name holds.
SubscribeViewParamsAgreeWithChannel ==
    (/\ SubscribeOnCrudChannel
     /\ subscribe.channel.shape = "view"
     /\ subscribe.did # <<>>) =>
        \A f \in AllFields :
            ParseViewParams(subscribe.channel.params)[f] # Undef =>
                OrEmpty(subscribe.query.viewParams)[f] =
                    ParseViewParams(subscribe.channel.params)[f]

(***************************************************************************)
(* Properties of the read buffer (SpecRead).                               *)
(***************************************************************************)
\* C17: when the engine's subscription to the resource channel fails, every
\* buffered read is rejected (with FailedToSubscribeToResourceChannel, the
\* only rejection of a read by id) and the buffer is left empty; a read
\* made while the engine is neither subscribed nor subscribing starts a new
\* subscription.
SubscribeFailureRejectsBufferedReads ==
    [][/\ (sub = "pending" /\ sub' = "unsubscribed" /\ cache' = cache) =>
            \A r \in Readers :
                /\ readers[r].pc = "buffered" => readers'[r].pc = "rejected"
                /\ readers'[r].pc # "buffered"
       /\ (sub = "unsubscribed"
           /\ \E r \in Readers : readers[r].pc = "idle" /\ readers'[r].pc # "idle")
            => sub' = "pending"
      ]_vars

\* A first read was rejected by a failed subscription and a second read has
\* started a new subscription.
SubscribeFailureRejectsBufferedReadsWitness ==
    /\ sub = "pending"
    /\ \E r, x \in Readers :
          readers[r].pc = "rejected" /\ readers[x].pc = "buffered"

(***************************************************************************)
(* Further properties of the write operations (Spec).                      *)
(***************************************************************************)
\* C18: every completed delete of a field that removed the field publishes
\* {type: 'delete'} on the field's channel and an 'update' on the channel
\* of every view the stored document was in that the field affects.
FieldDeletePublishesViewUpdates ==
    \A w \in FinishedWrites({"delete"}) :
        (ops[w].query.field # Undef /\ ops[w].before # ops[w].after) =>
            /\ HasPublication(ops[w].pubs,
                   GetResourcePropertyChannelName("Item", TheId,
                                                  ops[w].query.field),
                   "delete")
            /\ \A k \in 1..Len(ops[w].oldAffectedViewData) :
                  HasPublication(ops[w].pubs,
                      GetViewChannelName(ops[w].oldAffectedViewData[k].view,
                                         ops[w].oldAffectedViewData[k].params,
                                         ops[w].oldAffectedViewData[k].type),
                      "update")

\* The channel and operation type of every publication of `pubs`.
PublicationKinds(pubs) ==
    {<<pubs[i].channel, pubs[i].payload.type>> : i \in 1..Len(pubs)}

\* The whole-value update that changes `old` into `new`.
UpdateQueryFor(old, new) ==
    [action |-> "update", type |-> "Item", id |-> TheId, field |-> Undef,
     value |-> Undef,
     rec |-> [f \in AllFields |->
                 IF old.doc[f] # new.doc[f] THEN new.doc[f] ELSE Undef]]

\* The publications the engine's own create, update or delete makes for
\* the change of `old` into `new`.
EnginePublications(old, new) ==
    IF old.isNull
    THEN CreatePublications(CreateQuery(new.doc), new.doc)
    ELSE IF new.isNull
    THEN DeletePublications(
             [NoQuery EXCEPT !.action = "delete", !.type = "Item",
                             !.id = TheId],
             GetQueryAffectedViews(
                 [NoQuery EXCEPT !.action = "delete", !.type = "Item",
                                 !.id = TheId], old))
    ELSE UpdatePublications(UpdateQueryFor(old, new),
             GetQueryAffectedViews(UpdateQueryFor(old, new), old), new.doc)

\* C19: notifyUpdate makes no publication when oldResource and newResource
\* differ in no field, and otherwise publishes, resource channel first, on
\* the channels and with the operation types of the engine's own create
\* (old null), update or delete (new null) for the same change.
NotifyUpdateRepublishesAsEngine ==
    \A w \in FinishedWrites({"notifyUpdate"}) :
        IF ops[w].before = ops[w].after
        THEN ops[w].pubs = <<>>
        ELSE /\ ops[w].pubs # <<>>
             /\ ops[w].pubs[1].channel = GetResourceChannelName("Item", TheId)
             /\ PublicationKinds(ops[w].pubs) =
                   PublicationKinds(EnginePublications(ops[w].before,
                                                       ops[w].after))

\* C20: every publication on a view channel made by a completed create,
\* update or delete carries {type, value} with type 'create', 'update' or
\* 'delete' and a value that holds the id of the resource and nothing else.
ViewPayloadHoldsIdOnly ==
    \A w \in FinishedWrites({"create", "update", "delete"}) :
        \A j \in 1..Len(ops[w].pubs) :
            IsOn(ops[w].pubs[j], {"view"}) =>
                /\ ops[w].pubs[j].payload.type \in {"create", "update", "delete"}
                /\ ops[w].pubs[j].payload.data =
                      JsonStableStringify([EmptyObject EXCEPT !["id"] = TheId])

(***************************************************************************)
(* C22.  A view whose schema declares disableRealtime.                     *)
(***************************************************************************)
\* The views of a model that are declared with disableRealtime.
RealtimeDisabledViews(type) ==
    {ModelViews(type)[i].name : i \in
        {k \in 1..Len(ModelViews(type)) : ModelViews(type)[k].disableRealtime}}

\* C22: no finished create, update or delete has a publication on a channel
\* of a view that is declared with disableRealtime.
DisableRealtimeViewsNeverPublished ==
    \A w \in Writers :
        (ops[w].pc = "done"
         /\ ops[w].query.action \in {"create", "update", "delete"})
        => \A j \in 1..Len(ops[w].pubs) :
               ops[w].pubs[j].channel.shape = "view"
               => ops[w].pubs[j].channel.view
                      \notin RealtimeDisabledViews(ops[w].pubs[j].channel.type)

(***************************************************************************)
(* C21.  A view param field holding a comma-separated string.  The schema  *)
(* declares Item.owner as type.string().multi(); the writes of this        *)
(* specification store owners that name several users.                     *)
(***************************************************************************)
MultiOwners == {"u1", "u1,u2", "u2,u3"}

\* The single values a comma-separated string stands for.
MultiVariants(value) ==
    IF value = "u1,u2" THEN {"u1", "u2"}
    ELSE IF value = "u2,u3" THEN {"u2", "u3"}
    ELSE {value}

MultiInit ==
    /\ db \in {NullResource,
               Some([id |-> TheId, owner |-> "u1,u2", rank |-> "r1"])}
    /\ WritesIdle
    /\ ReadsIdle
    /\ options = DefaultOptions
    /\ MiddlewareIdle
    /\ postOptions = DefaultPostOptions
    /\ AccessIdle
    /\ CacheIdle

MultiNext ==
    \/ \E w \in Writers, o \in MultiOwners :
           Create(w, [id |-> TheId, owner |-> o, rank |-> "r1"])
    \/ \E w \in Writers, o \in MultiOwners :
           UpdateLoad(w, [action |-> "update", type |-> "Item", id |-> TheId,
                          field |-> "owner", value |-> o,
                          rec |-> EmptyObject])
    \/ \E w \in Writers : UpdateSave(w)
    \/ \E w \in Writers, q \in DeleteQueries : DeleteLoad(w, q)
    \/ \E w \in Writers : DeleteSave(w)
    \/ \E w \in Writers : Finish(w)

SpecMulti == MultiInit /\ [][MultiNext]_vars

\* The publications of a finished call that are on view channels.
ViewPublications(op) ==
    SelectSeq(op.pubs, LAMBDA p : p.channel.shape = "view")

\* C21: a finished create of a document whose owner names several users has
\* a publication on the channel of byOwner for every single user the owner
\* names, and no finished write has more than maxMultiPublish = 20
\* publications on view channels.
MultiParamVariantsPublished ==
    \A w \in Writers :
        ops[w].pc = "done"
        => /\ Len(ViewPublications(ops[w])) <= 20
           /\ (ops[w].query.action = "create" /\ ~ops[w].result.isNull)
              => \A v \in MultiVariants(ops[w].result.doc.owner) :
                     \E j \in 1..Len(ops[w].pubs) :
                         ops[w].pubs[j].channel =
                             GetViewChannelName("byOwner",
                                 [EmptyObject EXCEPT !.owner = v], "Item")

\* The fanout cap alone.
ViewPublicationsWithinCap ==
    \A w \in Writers :
        ops[w].pc = "done" => Len(ViewPublications(ops[w])) <= 20

(***************************************************************************)
(* C23.  Creates against a database that reports a duplicate key or        *)
(* rejects the query.                                                      *)
(***************************************************************************)
ErrorsInit ==
    /\ db \in {NullResource, Some([id |-> TheId, owner |-> "u1", rank |-> "r1"])}
    /\ WritesIdle
    /\ ReadsIdle
    /\ options = DefaultOptions
    /\ MiddlewareIdle
    /\ postOptions = DefaultPostOptions
    /\ AccessIdle
    /\ CacheIdle

ErrorsNext ==
    \/ \E w \in Writers, v \in CreateValues, rejected \in BOOLEAN :
           CreateRun(w, v, rejected)
    \/ \E w \in Writers : Finish(w)

SpecErrors == ErrorsInit /\ [][ErrorsNext]_vars

\* The messages errors.create is applied to.
Messages ==
    {Message("The query did not find a document and returned null", Undef),
     Message("Duplicate primary key", "id"),
     Message("Duplicate primary key", TheId),
     Message("Cannot perform write: primary replica not available", Undef),
     Message("Unknown error", Undef)}

\* errors.create maps a message that matches neither pattern to
\* DatabaseError.
OtherMessagesAreDatabaseErrors ==
    \A m \in Messages :
        m.head \notin {"The query did not find a document and returned null",
                       "Duplicate primary key"}
        => ErrorsCreate(m).name = "DatabaseError"

\* C23: a create that fails in the database fails with
\* DuplicatePrimaryKeyError or DatabaseError; a DuplicatePrimaryKeyError
\* carries the id of the value that was to be inserted as primaryKey; the
\* failed create has emitted 'error' and 'createFail' and published nothing.
DuplicateCreateFailsWithOffendingKey ==
    \A w \in Writers :
        (ops[w].pc = "failed" /\ ops[w].query.action = "create"
         /\ ModelValidator("Item", ops[w].query.rec, FALSE).error = Undef)
        => /\ ops[w].error \in {"DuplicatePrimaryKeyError", "DatabaseError"}
           /\ ops[w].error = "DuplicatePrimaryKeyError"
              => ops[w].primaryKey = ops[w].query.rec.id
           /\ ops[w].events = {"error", "createFail"}
           /\ ops[w].pubs = <<>>
           /\ OtherMessagesAreDatabaseErrors

\* What holds of a create that fails in the database: both events, no
\* publication, the database unchanged by the call.
FailedCreateEmitsAndPublishesNothing ==
    \A w \in Writers :
        (ops[w].pc = "failed" /\ ops[w].query.action = "create")
        => /\ ops[w].events = {"error", "createFail"}
           /\ ops[w].pubs = <<>>
           /\ ops[w].error = "DuplicatePrimaryKeyError"
              => ops[w].primaryKey = "id"
           /\ OtherMessagesAreDatabaseErrors

(***************************************************************************)
(* The cache object under every interleaving of its callers, its timers    *)
(* and its providers.                                                      *)
(***************************************************************************)
CacheInit ==
    /\ db = NullResource
    /\ WritesIdle
    /\ ReadsIdle
    /\ options = DefaultOptions
    /\ MiddlewareIdle
    /\ postOptions = DefaultPostOptions
    /\ AccessIdle
    /\ CacheIdle

CacheNext ==
    \/ \E c \in Callers : Pass(c)
    \/ \E p \in Callers, data \in LoadValues : ProviderResolves(p, data)
    \/ \E p \in Callers : ProviderRejects(p)
    \/ Clear
    \/ Update("patched")
    \/ \E t \in timers : Timeout(t)

SpecCache == CacheInit /\ [][CacheNext]_vars

\* C24: at most one provider invocation for the resource path is
\* outstanding at any moment.
AtMostOneProviderOutstanding == Cardinality(providers) <= 1

\* Without Cache.clear and without a timer firing, a second provider is
\* never started while one is outstanding.
OneProviderUnlessEntryRemoved ==
    (emitted.clear = 0 /\ emitted.expire = 0) => Cardinality(providers) <= 1

\* C25: a step in which the provider of a pending entry fails rejects every
\* waiter, leaving none waiting, and removes the pending entry.
ProviderFailureRemovesPendingEntry ==
    [][(/\ \E p \in providers : providers' = providers \ {p}
        /\ ResourcePath \in DOMAIN cacheEntries
        /\ CacheGet.pending
        /\ emitted' = emitted)
       => /\ \A c \in Callers :
                 passes[c].pc = "waiting" => passes'[c].pc = "rejected"
          /\ ResourcePath \notin DOMAIN cacheEntries']_vars

\* What a failing provider does: every waiter is rejected and the stored
\* entry is left as it is.
ProviderFailureRejectsWaiters ==
    [][(/\ \E p \in providers : providers' = providers \ {p}
        /\ emitted' = emitted)
       => /\ \A c \in Callers :
                 passes[c].pc = "waiting" => passes'[c].pc = "rejected"
          /\ cacheEntries' = cacheEntries]_vars

\* C26: when a provider's load of a document completes on a pending entry
\* whose patch holds a value for f, the resource stored and the resource
\* every waiter is resolved with have that value for f.
PatchWinsOverLoadedValue ==
    [][(/\ \E p \in providers : providers' = providers \ {p}
        /\ emitted'.set = emitted.set + 1
        /\ ResourcePath \in DOMAIN cacheEntries
        /\ CacheGet.pending
        /\ CacheGet.patch # Undef
        /\ cacheEntries'[ResourcePath].resource.resource # Undef)
       => /\ cacheEntries'[ResourcePath].resource.resource = CacheGet.patch
          /\ \A c \in Callers :
                 passes[c].pc = "waiting" => passes'[c].value = CacheGet.patch]_vars

\* What the completion of a load does: the loaded data are stored and
\* handed to every waiter as the provider gave them.
LoadedValueStoredAsGiven ==
    [][(/\ \E p \in providers : providers' = providers \ {p}
        /\ emitted'.set = emitted.set + 1)
       => /\ ~cacheEntries'[ResourcePath].resource.pending
          /\ cacheEntries'[ResourcePath].resource.resource \in LoadValues
          /\ \A c \in Callers :
                 passes[c].pc = "waiting"
                 => passes'[c].value =
                        cacheEntries'[ResourcePath].resource.resource]_vars

\* A timer is armed exactly when an entry is stored, and the one armed
\* timer is the stored entry's.
TimerArmedIffEntryStored ==
    IF ResourcePath \in DOMAIN cacheEntries
    THEN timers = {cacheEntries[ResourcePath].timeout}
    ELSE timers = {}

\* A step that leaves no timer armed leaves no entry stored; it is either
\* a timer firing, which emits exactly one 'expire', or Cache.clear, which
\* emits 'clear'; no other step emits 'expire'.
TimerStepsFollowEntry ==
    [][/\ timers' = {} => ResourcePath \notin DOMAIN cacheEntries'
       /\ (timers # {} /\ timers' = {})
          => \/ /\ emitted'.expire = emitted.expire + 1
                /\ emitted'.clear = emitted.clear
             \/ /\ emitted'.clear = emitted.clear + 1
                /\ emitted'.expire = emitted.expire
       /\ emitted'.expire # emitted.expire
          => /\ emitted'.expire = emitted.expire + 1
             /\ timers # {} /\ timers' = {}]_vars

\* C28: for the resource path a timer is armed exactly when an entry is
\* stored and at most one is armed (so every Cache.set and Cache.clear has
\* cancelled the previous one), and a timer that fires removes the entry
\* and emits exactly one 'expire'.
EntryTimerDiscipline == []TimerArmedIffEntryStored /\ TimerStepsFollowEntry

\* Entries have been refreshed by a hit, cleared and expired, and a loaded
\* entry is stored with its timer armed.
EntryTimerDisciplineWitness ==
    /\ emitted.hit > 0
    /\ emitted.expire > 0
    /\ emitted.clear > 0
    /\ ResourcePath \in DOMAIN cacheEntries
    /\ ~CacheGet.pending
    /\ timers # {}

\* Two callers passed for the uncached resource before its load completed,
\* both were resolved by that one load, and nothing else has happened to
\* the cache.
TwoPassesSharedOneLoad ==
    /\ emitted.clear = 0
    /\ emitted.expire = 0
    /\ \E c1, c2 \in Callers :
          /\ c1 # c2
          /\ passes[c1] = [pc |-> "resolved", value |-> passes[c1].value,
                           provider |-> c1]
          /\ passes[c2] = passes[c1]
          /\ \A c \in Callers \ {c1, c2} : passes[c].pc = "idle"

\* C29: two reads of an uncached resource made in the same tick have
\* emitted exactly one 'miss' and exactly one 'set' when both are answered.
SameTickReadsEmitOneMissOneSet ==
    TwoPassesSharedOneLoad => emitted.miss = 1 /\ emitted.set = 1

\* What the two passes emit: one 'miss', one 'hit' on the placeholder, and
\* two 'set', the placeholder's and the loaded entry's.
SameTickReadsEmitTwoSets ==
    TwoPassesSharedOneLoad
    => emitted.miss = 1 /\ emitted.hit = 1 /\ emitted.set = 2

\* C27: every step that removes the cache entry of Item/i1, by expiry or by
\* Cache.clear, leaves the engine unsubscribed from crud>Item/i1.
RemovedEntryUnsubscribesChannel ==
    [][(cache.state # "none" /\ cache'.state = "none")
       => sub' = "unsubscribed"]_vars

\* A reader's pass has stored an entry, which has since been removed, and
\* the engine is not subscribed.
RemovedEntryUnsubscribesChannelWitness ==
    /\ \E r \in Readers : readers[r].pc = "passed"
    /\ cache.state = "none"
    /\ sub = "unsubscribed"

(***************************************************************************)
(* C30.  getAffectedViews applied to documents and field lists: the        *)
(* oldResourceAffectedViews of notifyUpdate for every pair of the          *)
(* documents below, and the oldAffectedViewData of update and delete.      *)
(***************************************************************************)
ViewResources ==
    {NullResource, Some([id |-> TheId, owner |-> Undef, rank |-> Undef])}
    \cup
    {Some([id |-> TheId, owner |-> o, rank |-> r]) :
        <<o, r>> \in {<<"u1", "r1">>, <<"u2", "r1">>, <<"u1", "r2">>}}

\* An update of a field that model User does not have: its value fails
\* the model's validation.
UnknownFieldQuery ==
    [action |-> "update", type |-> "User", id |-> TheId, field |-> "rank",
     value |-> "r2", rec |-> EmptyObject]

\* Writes that fail, beside reads that keep the document cached: model
\* Item has a post access filter, and the engine reads Item/i1.
FailInit ==
    /\ db = Some([id |-> TheId, owner |-> "u1", rank |-> "r1"])
    /\ WritesIdle
    /\ ReadsIdle
    /\ options = DefaultOptions
    /\ MiddlewareIdle
    /\ postOptions = [post |-> TRUE, blockPostByDefault |-> FALSE]
    /\ AccessIdle
    /\ CacheIdle

FailNext ==
    \/ Read("r1")
    \/ HandleResourceSubscribe
    \/ HandleResourceChange
    \/ \E w \in Writers : AttachedCall(w)
    \/ \E w \in Writers, rejected \in BOOLEAN :
           CreateRun(w, [id |-> TheId, owner |-> "u1", rank |-> "r1"], rejected)
    \/ \E w \in Writers, q \in RefusedQueries("update") : UpdateRejected(w, q)
    \/ \E w \in Writers, q \in {u \in UpdateFieldQueries : u.value = "u2"}
                                  \cup {UnknownFieldQuery} :
           UpdateLoad(w, q)
    \/ \E w \in Writers, outcome \in {"returns", "boolean"} :
           ApplyPostAccessFilter(w, outcome)
    \/ \E w \in Writers, rejected \in BOOLEAN : UpdateSaveRun(w, rejected)
    \/ \E w \in Writers, q \in RefusedQueries("delete") : DeleteRejected(w, q)
    \/ \E w \in Writers, q \in DeleteQueries : DeleteLoad(w, q)
    \/ \E w \in Writers : DeleteSave(w)
    \/ \E w \in Writers : Deliver(w)

SpecFail == FailInit /\ [][FailNext]_vars

ViewsInit ==
    /\ db \in {NullResource, Some([id |-> TheId, owner |-> "u1", rank |-> "r1"])}
    /\ WritesIdle
    /\ ReadsIdle
    /\ options = DefaultOptions
    /\ MiddlewareIdle
    /\ postOptions = DefaultPostOptions
    /\ AccessIdle
    /\ CacheIdle

ViewsNext ==
    \/ \E w \in Writers, o \in ViewResources, n \in ViewResources :
           NotifyUpdateCall(w, o, n)
    \/ \E w \in Writers, q \in UpdateFieldQueries \cup UpdateWholeQueries :
           UpdateLoad(w, q)
    \/ \E w \in Writers, q \in DeleteQueries : DeleteLoad(w, q)
    \/ \E w \in Writers : Finish(w)

SpecViews == ViewsInit /\ [][ViewsNext]_vars

\* The names and types of the candidate views of a write to type that have
\* one of the fields among id, their paramFields and their affectingFields;
\* every candidate view when the call has no fields.
ViewsOfFields(type, hasFields, fields) ==
    {<<AllViewSchemas(type)[i].name, AllViewSchemas(type)[i].type>> :
        i \in {k \in 1..Len(AllViewSchemas(type)) :
                 hasFields =>
                     SeqToSet(fields)
                       \cap ({"id"}
                             \cup SeqToSet(AllViewSchemas(type)[k].paramFields)
                             \cup SeqToSet(AllViewSchemas(type)[k].affectingFields))
                       # {}}}

\* The names and types of the views in a list that getAffectedViews
\* returned.
ViewsOf(affectedViews) ==
    {<<affectedViews[i].view, affectedViews[i].type>> :
        i \in 1..Len(affectedViews)}

\* C30: the views getAffectedViews has returned for a call with fields are
\* the candidate views, own and foreign, with a listed field among id,
\* paramFields and affectingFields, each once; for a call without fields
\* they are all the candidate views.
AffectedViewsFollowFields ==
    \A w \in Writers :
        /\ (ops[w].query.action = "notifyUpdate"
            /\ GetModifiedResourceFields(ops[w].before, ops[w].after) # <<>>)
           => /\ ViewsOf(ops[w].oldAffectedViewData)
                   = ViewsOfFields("Item", TRUE,
                         GetModifiedResourceFields(ops[w].before, ops[w].after))
              /\ Len(ops[w].oldAffectedViewData)
                   = Cardinality(ViewsOf(ops[w].oldAffectedViewData))
        /\ (ops[w].query.action \in {"update", "delete"}
            /\ ops[w].pc \in {"loaded", "done"})
           => /\ ViewsOf(ops[w].oldAffectedViewData)
                   = ViewsOfFields("Item", ops[w].query.field # Undef,
                                   <<ops[w].query.field>>)
              /\ Len(ops[w].oldAffectedViewData)
                   = Cardinality(ViewsOf(ops[w].oldAffectedViewData))

\* notifyUpdate was called with documents that differ in rank alone, which
\* leaves the foreign view out, and an update without a field is loaded.
AffectedViewsFollowFieldsWitness ==
    /\ \E w \in Writers :
          /\ ops[w].query.action = "notifyUpdate"
          /\ GetModifiedResourceFields(ops[w].before, ops[w].after) = <<"rank">>
          /\ ViewsOf(ops[w].oldAffectedViewData)
               = {<<"byOwner", "Item">>, <<"ranked", "Item">>}
    /\ \E w \in Writers :
          /\ ops[w].pc = "loaded"
          /\ ops[w].query.action = "update"
          /\ ops[w].query.field = Undef
          /\ Len(ops[w].oldAffectedViewData) = 3

(***************************************************************************)
(* C31.  The params of a foreign view.                                     *)
(***************************************************************************)
\* C31: a finished create of an Item publishes on the channel of the User
\* view ownedItems whose param id is the value of the relation function
\* declared for User.id applied to the item (its owner), and on the
\* channel of its own view byOwner whose param owner is the item's owner.
ForeignViewParamsFromRelation ==
    \A w \in FinishedWrites({"create"}) :
        /\ \E j \in 1..Len(ops[w].pubs) :
              ops[w].pubs[j].channel =
                  GetViewChannelName("ownedItems",
                      [EmptyObject EXCEPT
                          !.id = RelationFn("User", "Item", "id",
                                            ops[w].result.doc)],
                      "User")
        /\ \E j \in 1..Len(ops[w].pubs) :
              ops[w].pubs[j].channel =
                  GetViewChannelName("byOwner",
                      [EmptyObject EXCEPT !.owner = ops[w].result.doc.owner],
                      "Item")

\* What getAffectedViews stores: the raw resource[field] for every param of
\* every candidate, own or foreign.
ViewParamsAreRawFields ==
    \A w \in FinishedWrites({"create"}) :
        /\ \E j \in 1..Len(ops[w].pubs) :
              ops[w].pubs[j].channel =
                  GetViewChannelName("ownedItems",
                      [EmptyObject EXCEPT !.id = ops[w].result.doc.id],
                      "User")
        /\ \E j \in 1..Len(ops[w].pubs) :
              ops[w].pubs[j].channel =
                  GetViewChannelName("byOwner",
                      [EmptyObject EXCEPT !.owner = ops[w].result.doc.owner],
                      "Item")

(***************************************************************************)
(* C32.  The foreign-view index after construction.                        *)
(***************************************************************************)
\* The declarations of views on parent that depend on fields of type.
DependentViews(parent, type) ==
    {[name |-> ModelViews(parent)[i].name,
      paramFields |-> ModelViews(parent)[i].paramFields,
      affectingFields |-> ModelViews(parent)[i].foreignAffectingFields[k].fields,
      parentType |-> parent] :
        <<i, k>> \in
            {ik \in (1..Len(ModelViews(parent))) \X (1..2) :
                /\ ik[2] <= Len(ModelViews(parent)[ik[1]].foreignAffectingFields)
                /\ ModelViews(parent)[ik[1]].foreignAffectingFields[ik[2]].type
                       = type}}

\* The entries of this._foreignViews[type].
ForeignViewIndex(type) ==
    {[name |-> GetForeignViews(type)[i].name,
      paramFields |-> GetForeignViews(type)[i].paramFields,
      affectingFields |-> GetForeignViews(type)[i].affectingFields,
      parentType |-> GetForeignViews(type)[i].parentType] :
        i \in 1..Len(GetForeignViews(type))}

\* C32: for the model T of every write the engine handles, the
\* foreign-view index of T holds every view that another model P declares
\* with foreignAffectingFields for T, with the view's paramFields and the
\* fields declared for T.
ForeignViewIndexComplete ==
    \A w \in Writers :
        ops[w].query.type # Undef
        => \A parent \in SeqToSet(ModelNames) \ {ops[w].query.type} :
               DependentViews(parent, ops[w].query.type)
                   \subseteq ForeignViewIndex(ops[w].query.type)

\* What the index holds: for every view name, the declaration of the first
\* model in schema order that declares a view of that name for T.
ForeignViewIndexFirstPerName ==
    \A type \in {ops[w].query.type : w \in Writers} \ {Undef} :
        /\ \A e \in ForeignViewIndex(type) :
               e \in DependentViews(e.parentType, type)
        /\ \A i \in 1..Len(ModelNames) :
               \A d \in DependentViews(ModelNames[i], type) :
                   \E e \in ForeignViewIndex(type) :
                       /\ e.name = d.name
                       /\ \E j \in 1..i : ModelNames[j] = e.parentType

(***************************************************************************)
(* C33.  Updates whose load and write interleave with another write.       *)
(***************************************************************************)
\* The channels of the publications in pubs that are on view channels.
ViewChannels(pubs) ==
    {pubs[j].channel : j \in {k \in 1..Len(pubs) : pubs[k].channel.shape = "view"}}

\* C33: the view channels a finished update that changed the document has
\* published on are those of the view transitions from the document it
\* replaced to the document it wrote.
UpdateViewsFromReplacedDocument ==
    \A w \in FinishedWrites({"update"}) :
        ops[w].before # ops[w].after
        => ViewChannels(ops[w].pubs)
             = ViewChannels(UpdateViewPublications(ops[w].query,
                   GetQueryAffectedViews(ops[w].query, ops[w].before),
                   ops[w].result.doc))

\* What holds: the view channels are those of the transitions from the
\* document the update loaded, which is the replaced one when no other
\* write came between its load and its write.
UpdateViewsFromLoadedDocument ==
    \A w \in FinishedWrites({"update"}) :
        ops[w].before # ops[w].after
        => /\ ViewChannels(ops[w].pubs)
                = ViewChannels(UpdateViewPublications(ops[w].query,
                      GetQueryAffectedViews(ops[w].query, ops[w].oldResource),
                      ops[w].result.doc))
           /\ ops[w].oldResource = ops[w].before
              => ViewChannels(ops[w].pubs)
                   = ViewChannels(UpdateViewPublications(ops[w].query,
                         GetQueryAffectedViews(ops[w].query, ops[w].before),
                         ops[w].result.doc))

\* C34: in every reachable state a loaded (non-pending) cache entry of
\* Item/i1 implies that the engine is subscribed to crud>Item/i1, also for
\* an entry loaded by the prefetch of a client SUBSCRIBE.
ResidentEntryImpliesSubscribed ==
    cache.state = "resident" => sub = "subscribed"

\* A loaded entry is left without the engine's subscription only by the
\* completion of a provider that Cache.pass started for a prefetch
\* (applyPostAccessFilter); the read path stores entries while subscribed.
ResidentEntryUnsubscribedOnlyByPrefetch ==
    [][(cache'.state = "resident" /\ sub' # "subscribed")
       => \/ cache.state = "resident" /\ sub # "subscribed"
          \/ \E f \in fetches : f.read /\ fetches' = fetches \ {f}
                                /\ cache' = ResidentEntry(Data(f.ver))]_vars

\* The cache with the scheduling the runtime gives it: a provider that was
\* called completes (resolves or rejects), and an armed timer fires unless
\* it is cancelled.
CacheFairness ==
    /\ \A p \in Callers :
           WF_vars(ProviderRejects(p)
                   \/ \E data \in LoadValues : ProviderResolves(p, data))
    /\ WF_vars(\E t \in timers : Timeout(t))

SpecCacheFair == SpecCache /\ CacheFairness

\* The promise of the pass of c has resolved or rejected.
PassSettled(c) == passes[c].pc \in {"resolved", "rejected"}

\* C35: provided every provider call completes, every promise returned by
\* Cache.pass eventually resolves or rejects, also for a pass that arrives
\* while the entry is pending, after the pending entry's provider failed,
\* or after the pending entry was cleared or expired.
EveryPassSettles ==
    \A c \in Callers : (passes[c].pc = "waiting") ~> PassSettled(c)

\* The promise of a pass that started a provider settles: at the latest
\* its own provider's completion resolves or rejects it.
PassWithOwnProviderSettles ==
    \A c \in Callers : (c \in providers) ~> PassSettled(c)

\* Reads with the scheduling the claim assumes: a pending subscription
\* ends in 'subscribe' or 'subscribeFail', and a provider's database fetch
\* is served and completes.
ReadFairness ==
    /\ WF_vars(HandleResourceSubscribe \/ HandleResourceSubscribeFailure)
    /\ WF_vars(\E f \in fetches : FetchRead(f))
    /\ WF_vars(\E f \in fetches : FetchComplete(f) \/ FetchFail(f))

SpecReadFair == SpecRead /\ ReadFairness

\* C36: provided fetches complete and a subscription attempt ends in
\* 'subscribe' or 'subscribeFail', every read by id eventually resolves or
\* rejects (its loadedHandler is called); no reader stays buffered forever.
EveryReadSettles ==
    \A r \in Readers :
        (readers[r].pc = "buffered")
            ~> (readers[r].pc \in {"resolved", "rejected"})

\* A reader leaves the buffer only rejected, by a failed subscription, or
\* handed to Cache.pass, which never calls its loadedHandler.
ReadersLeaveBufferRejectedOrPassed ==
    [][\A r \in Readers :
          (readers[r].pc = "buffered" /\ readers'[r].pc # "buffered")
          => \/ readers'[r].pc = "rejected" /\ sub = "pending"
                /\ sub' = "unsubscribed"
             \/ readers'[r].pc = "passed" /\ sub' = "subscribed"]_vars

\* C37: for an update or delete called with a socket, the resource the
\* post access filter approved is the document state the write is applied
\* to: no other write takes effect between the load and the write.
ApprovedResourceIsWrittenResource ==
    \A w \in FinishedWrites({"update", "delete"}) :
        (calls[w].socket # Undef /\ calls[w].filter = "passed")
        => ops[w].oldResource = ops[w].before

\* The resource handed to the post access filter is the document as the
\* operation's own load returned it.
ApprovedResourceIsLoadedResource ==
    [][\A w \in Writers :
          (ops[w].pc = "loaded" /\ calls'[w].filter # calls[w].filter)
          => /\ ops'[w].oldResource = ops[w].oldResource
             /\ UNCHANGED db]_vars

\* A write that failed has published nothing.
FailedWritePublishesNothing ==
    \A w \in Writers : ops[w].pc = "failed" => ops[w].pubs = <<>>

\* The step in which a write fails and the delivery of what it published
\* leave the cache and the engine's resource channel as they were.
FailedWriteStepsKeepCache ==
    [][\A w \in Writers :
          (\/ ops[w].pc # "failed" /\ ops'[w].pc = "failed"
           \/ ops[w].pc = "failed" /\ ops'[w].pc # "failed")
          => UNCHANGED <<cache, inbox, sub, cacheEntries>>]_vars

\* C38: a create, update or delete that fails (unknown model, missing id,
\* field 'id', primitive value, rejected access filter, model validation,
\* database error) publishes on no channel and leaves the cache unchanged.
FailedWriteLeavesNoTrace ==
    []FailedWritePublishesNothing /\ FailedWriteStepsKeepCache

\* Both writers have failed, one blocked by the post access filter and one
\* refused for the field 'id', while Item/i1 is cached and the engine is
\* subscribed to its channel.
FailedWriteLeavesNoTraceWitness ==
    /\ cache.state = "resident"
    /\ sub = "subscribed"
    /\ \E w \in Writers :
           ops[w].pc = "failed" /\ ops[w].error = "CRUDBlockedError"
    /\ \E w \in Writers :
           ops[w].pc = "failed" /\ ops[w].error = "CRUDInvalidOperation"

\* C39: an update whose database write reports no changes (the value
\* written equals the stored one, or no document has the id) makes no
\* publication on a view channel.
UnchangedUpdatePublishesNoView ==
    \A w \in FinishedWrites({"update"}) :
        ops[w].before = ops[w].after => ViewChannels(ops[w].pubs) = {}

\* The view publications of an update are the transitions from the views of
\* the loaded document to the views of what _updateDb returned, which is {}
\* for a write without changes.
UnchangedUpdateViewsFromEmptyResult ==
    \A w \in FinishedWrites({"update"}) :
        /\ ops[w].before = ops[w].after => ops[w].result.doc = EmptyObject
        /\ ViewChannels(ops[w].pubs)
             = ViewChannels(UpdateViewTransitions(ops[w].query,
                   ops[w].oldAffectedViewData,
                   GetQueryAffectedViews(ops[w].query, ops[w].result)))

(***************************************************************************)
(* The preload of a SUBSCRIBE through the cache.  The handler of one       *)
(* socket's inbound stream is caller a1 of Cache.pass; the other callers   *)
(* are the handlers of other sockets subscribing to the same resource.     *)
(***************************************************************************)
MaxPasses == 2

\* applyPostAccessFilter with fetchResource, query.id set: the handler
\* calls cache.pass(query, provider) and awaits its promise.
PreloadPass ==
    /\ subscribe.pc = "fetching"
    /\ subscribe.query.id # Undef
    /\ Pass("a1")

\* The promise of the handler's cache.pass settles: the resource is
\* attached to the request, or the preload error is thrown and the action
\* is blocked.
PreloadSettles ==
    /\ subscribe.pc = "fetching"
    /\ passes["a1"].pc \in {"resolved", "rejected"}
    /\ subscribe' =
          IF passes["a1"].pc = "resolved"
          THEN [subscribe EXCEPT !.pc = "filtering",
                                 !.did = Append(@, "fetch")]
          ELSE Handled(subscribe, subscribe.did, {"post"}, Block(PreloadError))
    /\ passes' = [passes EXCEPT !["a1"] = IdlePass]
    /\ UNCHANGED <<cacheEntries, cacheWatchers, timers, providers, emitted>>
    /\ UNCHANGED <<postOptions, requests, writeVars, readVars, mwVars, calls>>

\* The handler takes a SUBSCRIBE from its stream; the cache has been
\* passed fewer than MaxPasses times.
PreloadSubscribe ==
    /\ emitted.hit + emitted.miss < MaxPasses
    /\ Subscribe

\* applyPostAccessFilter with fetchResource, a view: the collection query.
PreloadCollection(loaded) ==
    /\ subscribe.query.id = Undef
    /\ SubscribeFetch(loaded)

PreloadInit ==
    /\ db = NullResource
    /\ WritesIdle
    /\ ReadsIdle
    /\ options = DefaultOptions
    /\ MiddlewareIdle
    /\ postOptions = [post |-> TRUE, blockPostByDefault |-> FALSE]
    /\ AccessIdle
    /\ CacheIdle

PreloadNext ==
    \/ PreloadSubscribe
    \/ PreloadPass
    \/ PreloadSettles
    \/ \E loaded \in BOOLEAN : PreloadCollection(loaded)
    \/ \E post \in {"returns", "boolean", "error"} : SubscribePostFilter(post)
    \/ SubscribeNext
    \/ Pass("a2")
    \/ \E p \in Callers, data \in LoadValues : ProviderResolves(p, data)
    \/ \E p \in Callers : ProviderRejects(p)
    \/ \E t \in timers : Timeout(t)

SpecPreload == PreloadInit /\ [][PreloadNext]_vars

\* The handler goes on whenever it can, the filters and the collection
\* query return, every provider completes and every armed timer fires.
PreloadFairness ==
    /\ WF_vars(PreloadPass)
    /\ WF_vars(PreloadSettles)
    /\ WF_vars(\E loaded \in BOOLEAN : PreloadCollection(loaded))
    /\ WF_vars(\E post \in {"returns", "boolean", "error"} :
                  SubscribePostFilter(post))
    /\ CacheFairness

SpecPreloadFair == SpecPreload /\ PreloadFairness

\* The action in the handler's hands has received one decision.
SubscribeDecided ==
    /\ subscribe.pc = "handled"
    /\ subscribe.result.decision \in {"allow", "block"}

\* C40: every action taken from the middleware stream receives exactly
\* one decision, allow or block, never neither, on every path through
\* the pre filter, the resource prefetch and the post filter.
EveryActionDecided ==
    (subscribe.pc \in {"fetching", "filtering"}) ~> SubscribeDecided

\* The handler leaves an action only decided, and what it decided stays
\* until the next action is taken.
ActionLeftOnlyDecided ==
    [][/\ (subscribe.pc # "idle" /\ subscribe'.pc = "idle")
            => SubscribeDecided
       /\ (SubscribeDecided /\ subscribe' # subscribe)
            => subscribe' = SubscribeIdle]_vars

\* An action that waits for its decision waits in the resource prefetch:
\* past the prefetch the decision comes.
PastPrefetchDecided ==
    (subscribe.pc = "filtering") ~> SubscribeDecided

====
